---- MODULE Spec2Model ----
(***************************************************************************)
(* The tiled image cache of src/libtexture/imagecache.cpp as a state       *)
(* machine: the file table (m_files, m_fingerprints, the open-file clock   *)
(* sweep), the tile table (m_tilecache, the tile clock sweep, m_mem_used), *)
(* the per-thread microcache with its purge flag, and the public           *)
(* operations get_imagespec, get_pixels, get_tile, release_tile,           *)
(* invalidate and invalidate_all, each cut into the atomic sections the    *)
(* code runs under one lock.                                               *)
(***************************************************************************)
EXTENDS Integers, FiniteSets, Sequences, TLC

(***************************************************************************)
(* Universe and bounds.                                                    *)
(***************************************************************************)
Threads == {"t1", "t2"}
Names == {"a", "b", "c"}
NoName == "none"

\* Iteration order of the FilenameMap (begin() .. end()).
NameIdx(n) == CASE n = "a" -> 1 [] n = "b" -> 2 [] n = "c" -> 3 [] OTHER -> 4
EndIt == "end"

\* m_max_open_files, the "max_open_files" attribute.
MaxOpenFiles == 2
\* m_max_memory_bytes, the "max_memory_MB" attribute, in units of one small tile.
MaxMemory == 2
\* How often the environment rewrites a file on disk.
MaxTouch == 2
\* Operations start only while every record's m_timesopened is below this.
MaxOpens == 2
\* Tile handles a client holds at once (get_tile without release_tile yet).
MaxHandles == 1

(***************************************************************************)
(* State.                                                                  *)
(***************************************************************************)
VARIABLES
    disk,           \* the image files on disk: [kind, attr, mtime, x, width,
                    \* height, textureformat] per name
    touches,        \* how often the disk was rewritten
    cfg,            \* attributes: accept_untiled, autotile, automip,
                    \* max_memory
    files,          \* m_files: filename -> ImageCacheFile (present = in the map)
    fingerprints,   \* m_fingerprints: fingerprint -> canonical file
    file_sweep,     \* m_file_sweep
    open_files,     \* m_stat_open_files_current
    unique_files,   \* stats.unique_files, merged over the threads
    tiles,          \* the ImageCacheTile objects alive, by address
    tilecache,      \* m_tilecache: TileID -> tile address (0 = no entry)
    tile_sweep,     \* m_tile_sweep
    mem_used,       \* m_mem_used
    pti,            \* ImageCachePerThreadInfo per thread
    pc,             \* where each thread stands
    op,             \* the public operation each thread runs
    tf,             \* find_file's newly constructed ImageCacheFile, per thread
    file,           \* the ImageCacheFile* find_file returned, per thread
    newtile,        \* find_tile_main_cache's newly read tile, per thread
    ret,            \* the result of each thread's last operation
    raced,          \* the thread's last find_file found its name inserted meanwhile
    crashed         \* the process died on a dangling iterator

filevars == <<files, fingerprints, file_sweep, open_files, unique_files>>
tilevars == <<tiles, tilecache, tile_sweep, mem_used>>
envvars == <<disk, touches, cfg>>
vars == <<disk, touches, cfg, files, fingerprints, file_sweep, open_files,
          unique_files, tiles, tilecache, tile_sweep, mem_used, pti,
          pc, op, tf, file, newtile, ret, raced, crashed>>

(***************************************************************************)
(* The files on disk.  Every file carries the same SHA-1 in its            *)
(* ImageDescription; "c" is a scanline file.                               *)
(***************************************************************************)
FPs == {1}
DiskFingerprint(n) == 1
DiskUntiled(n) == n = "c"
\* ok; the reader cannot open it; its third subimage has another channel
\* count; it opens but its pixel reads fail.
DiskKinds == {"ok", "bad", "chan", "noread"}
DiskAttrs == {1, 2}

\* ImageCacheImpl::resolve_filename: "c" lies in a directory of the
\* "searchpath" attribute, the other files in the current directory.
Resolved(n) == IF n = "c" THEN "dir/c" ELSE n

(***************************************************************************)
(* ImageCacheFile.                                                         *)
(***************************************************************************)
NoFile == [present |-> FALSE, opened |-> FALSE, used |-> FALSE,
           broken |-> FALSE, nspec |-> 0, untiled |-> FALSE,
           fingerprint |-> 0, attr |-> 0, duplicate |-> NoName,
           timesopened |-> 0, mod_time |-> 0, spec |-> <<>>]

Max(a, b) == IF a > b THEN a ELSE b

\* The <<width, height>> of the levels ImageCacheFile::open appends to
\* m_spec below a level of w by h.
RECURSIVE AutoMip(_, _)
\* An open that appends the first level only.
AutoMip_OneLevel(w, h) ==
    IF w > 1 \/ h > 1
    THEN <<<<Max(1, w \div 2), Max(1, h \div 2)>>>>
    ELSE <<>>

AutoMip(w, h) ==
    IF w > 1 \/ h > 1
    THEN LET w1 == Max(1, w \div 2)
             h1 == Max(1, h \div 2)
         IN  <<<<w1, h1>>>> \o AutoMip(w1, h1)
    ELSE <<>>

\* m_spec of file n after open has walked its only subimage: the levels
\* are added to a scanline file without a "textureformat" attribute.
Specs(n) ==
    LET d == disk[n]
    IN  <<<<d.width, d.height>>>>
        \o IF DiskUntiled(n) /\ cfg.automip /\ ~d.textureformat
           THEN AutoMip(d.width, d.height) ELSE <<>>

\* ImageCacheFile::open.  f is the record, n its filename; the result is the
\* record after the call and the change of m_stat_open_files_current.
FileOpen(f, n) ==
    IF f.opened \/ f.broken
    THEN [f |-> f, inc |-> 0]
    ELSE IF disk[n].kind = "bad"
    THEN [f |-> [f EXCEPT !.broken = TRUE], inc |-> 0]
    ELSE LET g == [f EXCEPT !.opened = TRUE, !.timesopened = @ + 1,
                            !.used = TRUE]
         IN  IF f.nspec > 0
             THEN [f |-> g, inc |-> 1]
             ELSE IF disk[n].kind = "chan"
             THEN \* a later subimage's nchannels differs: close(), broken
                  [f |-> [g EXCEPT !.opened = FALSE, !.broken = TRUE,
                                   !.nspec = 2, !.untiled = DiskUntiled(n),
                                   !.spec = <<<<disk[n].width, disk[n].height>>,
                                              <<disk[n].width, disk[n].height>>>>],
                   inc |-> 0]
             ELSE IF DiskUntiled(n) /\ ~cfg.accept_untiled
             THEN \* m_input.reset() without decr_open_files()
                  [f |-> [g EXCEPT !.opened = FALSE, !.broken = TRUE,
                                   !.nspec = Len(Specs(n)), !.untiled = TRUE,
                                   !.spec = Specs(n)],
                   inc |-> 1]
             ELSE [f |-> [g EXCEPT !.nspec = Len(Specs(n)),
                                   !.spec = Specs(n),
                                   !.untiled = DiskUntiled(n),
                                   !.fingerprint = DiskFingerprint(n),
                                   !.attr = disk[n].attr],
                   inc |-> 1]

\* A constructor that leaves the open to a later call.
NewFile_NoOpen(n) ==
    [f |-> [NoFile EXCEPT !.present = TRUE, !.used = TRUE], inc |-> 0]

\* ImageCacheFile::ImageCacheFile for filename n.
NewFile(n) ==
    LET r == FileOpen([NoFile EXCEPT !.present = TRUE, !.used = TRUE], n)
    IN  [f |-> IF r.f.broken THEN r.f
               ELSE [r.f EXCEPT !.mod_time = disk[n].mtime],
         inc |-> r.inc]

\* A close that forgets the specs with the reader.
FileClose_DropSpec(f) ==
    IF f.opened
    THEN [f |-> [f EXCEPT !.opened = FALSE, !.nspec = 0, !.spec = <<>>],
          dec |-> 1]
    ELSE [f |-> f, dec |-> 0]

\* ImageCacheFile::close.
FileClose(f) ==
    IF f.opened THEN [f |-> [f EXCEPT !.opened = FALSE], dec |-> 1]
    ELSE [f |-> f, dec |-> 0]

\* A release that resets a broken record, for it to be tried again.
FileRelease_Retry(f) ==
    IF f.used THEN [f |-> [f EXCEPT !.used = FALSE], dec |-> 0]
    ELSE FileClose([f EXCEPT !.broken = FALSE])

\* A release that closes the reader whatever the used flag is.
FileRelease_OneChance(f) == FileClose([f EXCEPT !.used = FALSE])

\* ImageCacheFile::release.
FileRelease(f) ==
    IF f.used THEN [f |-> [f EXCEPT !.used = FALSE], dec |-> 0]
    ELSE FileClose(f)

\* ImageCacheFile::invalidate up to its call of open: close (),
\* m_spec.clear (), m_broken = false, m_fingerprint.clear (), duplicate (NULL).
FileClear(f) ==
    LET c == FileClose(f)
    IN  [f |-> [c.f EXCEPT !.nspec = 0, !.spec = <<>>, !.broken = FALSE,
                           !.fingerprint = 0, !.duplicate = NoName],
         dec |-> c.dec]

\* ImageCacheFile::invalidate: the record after it and the net change of
\* m_stat_open_files_current.
FileInvalidate(f, n) ==
    LET c == FileClear(f)
        o == FileOpen(c.f, n)
    IN  [f |-> o.f, inc |-> o.inc - c.dec]

(***************************************************************************)
(* The file table.                                                         *)
(***************************************************************************)
Present(fs) == {n \in Names : fs[n].present}

\* m_files.begin()
FirstName(fs) ==
    IF Present(fs) = {} THEN EndIt
    ELSE CHOOSE n \in Present(fs) : \A m \in Present(fs) : NameIdx(n) <= NameIdx(m)

\* ++it
NextName(fs, n) ==
    LET after == {m \in Present(fs) : NameIdx(m) > NameIdx(n)}
    IN  IF after = {} THEN EndIt
        ELSE CHOOSE m \in after : \A k \in after : NameIdx(m) <= NameIdx(k)

\* if (tf->duplicate()) tf = tf->duplicate();
Canonical(fs, n) == IF fs[n].duplicate # NoName THEN fs[n].duplicate ELSE n

\* find_file reopens the reader of the record it returns.
Use_Reopen(fs, r) == [fs EXCEPT ![r] = FileOpen(@, r).f]

\* tf->use (): find_file marks the record it returns, and opens nothing.
Use(fs, r) == [fs EXCEPT ![r].used = TRUE]

\* The loop of check_max_files makes no more progress once every record of the
\* map was visited twice.
SweepFuel == 2 * Cardinality(Names) + 1

\* ImageCacheImpl::check_max_files on s = [files, sweep, cnt, spin, visits],
\* the table, m_file_sweep and m_stat_open_files_current; spin = the loop
\* never ends; visits counts the calls of release () on every record.
\* (The singleton {s0} has TLC evaluate the argument once.)
RECURSIVE check_max_files(_, _)
check_max_files(s0, fuel) ==
    LET Sweep(s) ==
            IF s.cnt < MaxOpenFiles THEN s
            ELSE LET c1 == IF s.sweep = EndIt THEN FirstName(s.files)
                           ELSE s.sweep
                 IN  IF c1 = EndIt THEN [s EXCEPT !.sweep = c1]
                     ELSE IF fuel = 0 THEN [s EXCEPT !.sweep = c1, !.spin = TRUE]
                     ELSE LET r == FileRelease(s.files[c1])
                          IN  check_max_files(
                                  [s EXCEPT !.files[c1] = r.f,
                                            !.sweep = NextName(s.files, c1),
                                            !.cnt = @ - r.dec,
                                            !.visits[c1] = @ + 1],
                                  fuel - 1)
    IN  CHOOSE r \in {Sweep(s) : s \in {s0}} : TRUE

\* The duplicate keeps the reader its constructor opened.
MarkDuplicate_NoClose(nf, known) ==
    [f |-> [nf EXCEPT !.duplicate = known], dec |-> 0]

\* tf->duplicate (dup); tf->close ();
MarkDuplicate(nf, known) == FileClose([nf EXCEPT !.duplicate = known])

\* find_file without its second lookup under the write lock.
Added_NoRecheck(n) == FALSE

\* find_file's second lookup, under the write lock: another thread added the
\* file while this one constructed its record.
Added(n) == files[n].present

\* The losing thread stores its record over the one in by_name.
LostRace_Overwrite(f, n) ==
    [files |-> [files EXCEPT ![n] = f], dec |-> 0, ret |-> n]

\* delete tf; tf = m_files[filename]; the switch to the canonical copy; use ().
LostRace(f, n) ==
    LET r == Canonical(files, n)
    IN  [files |-> Use(files, r), dec |-> FileClose(f).dec, ret |-> r]

\* find_file after the write lock is taken, when the name is still absent:
\* fingerprint deduplication, check_max_files, insertion.  nf is the newly
\* constructed record.
InsertFile(n, nf) ==
    LET fp == nf.fingerprint
        known == IF fp # 0 THEN fingerprints[fp] ELSE NoName
        isdup == fp # 0 /\ known # NoName /\ nf.attr = files[known].attr
        c == IF isdup THEN MarkDuplicate(nf, known)
             ELSE [f |-> nf, dec |-> 0]
        fps == IF fp # 0 /\ known = NoName
               THEN [fingerprints EXCEPT ![fp] = n] ELSE fingerprints
        s == check_max_files([files |-> files, sweep |-> file_sweep,
                              cnt |-> open_files - c.dec, spin |-> FALSE,
                              visits |-> [m \in Names |-> 0]],
                             SweepFuel)
        fs == [s.files EXCEPT ![n] = c.f]
        r == Canonical(fs, n)
    IN  [files |-> Use(fs, r),
         fingerprints |-> fps, sweep |-> s.sweep, cnt |-> s.cnt,
         swept |-> s.files, visits |-> s.visits,
         unique |-> IF isdup THEN unique_files ELSE unique_files + 1,
         ret |-> r, spin |-> s.spin]

(***************************************************************************)
(* Tiles.  Every image is 2 pixels wide and 1 high, one byte per pixel:    *)
(* "a" has two 1-pixel tiles, "b" one 2-pixel tile, the scanline file "c"  *)
(* two 1-pixel tiles under autotile and else one tile, the whole image.    *)
(* tiles maps the address of every ImageCacheTile alive to the object.     *)
(***************************************************************************)
Pixels == {0, 1}
TileWidth(n) == IF n = "a" \/ (n = "c" /\ cfg.autotile) THEN 1 ELSE 2
TileIDs == Names \X Pixels
TileIdx(id) == 2 * NameIdx(id[1]) + id[2]
NoID == <<NoName, 0>>

\* Addresses: PerID of them for the tiles of one TileID, 0 is NULL.
PerID == 2 * Cardinality(Threads) + MaxHandles + 1
AddrsOf(id) == {PerID * TileIdx(id) + k : k \in 0 .. PerID - 1}
NewAddr(T, id) ==
    CHOOSE o \in AddrsOf(id) \ DOMAIN T :
        \A q \in AddrsOf(id) \ DOMAIN T : o <= q

\* Pixel bytes.  A tile read from the file holds the bytes that the file, as
\* it was on disk then, has at the tile's origin: Bytes, 0 or more.  The
\* others: what a failed read left in the tile's buffer, the zeros of memset,
\* and what the caller's buffer held before the call.
Bytes(f, x) == disk[f].mtime * Cardinality(Pixels) + x
FailedRead == 0 - 1
Zeros == 0 - 2
Untouched == 0 - 3

\* ImageCacheTile::memsize
memsize(tl) == TileWidth(tl.file)

Without(T, dead) == [o \in DOMAIN T \ dead |-> T[o]]
With(T, a, tl) == [o \in DOMAIN T \cup {a} |-> IF o = a THEN tl ELSE T[o]]

\* The tile addresses some reference other than m_tilecache holds:
\* microcache slots, get_tile handles, the locals of find_tile_main_cache.
Pinned(T, p, nt) ==
    ({p[t].tile : t \in Threads} \cup {p[t].lasttile : t \in Threads}
        \cup {nt[t] : t \in Threads} \cup {o \in DOMAIN T : T[o].handles > 0})
    \ {0}

InTable(tc) == {id \in TileIDs : tc[id] # 0}

\* m_tilecache.begin()
FirstTile(tc) ==
    IF InTable(tc) = {} THEN NoID
    ELSE CHOOSE i \in InTable(tc) : \A j \in InTable(tc) : TileIdx(i) <= TileIdx(j)

\* ++it
NextTile(tc, id) ==
    LET after == {j \in InTable(tc) : TileIdx(j) > TileIdx(id)}
    IN  IF after = {} THEN NoID
        ELSE CHOOSE i \in after : \A j \in after : TileIdx(i) <= TileIdx(j)

\* The sweep cursor: at = NoID is end(); ok = FALSE when the entry it referred
\* to was erased under it.
EndSweep == [at |-> NoID, ok |-> TRUE]

\* ImageCacheTile::release
TileRelease(tl) == [tl |-> [tl EXCEPT !.used = FALSE], was |-> tl.used]

\* ImageCacheImpl::check_max_mem on the tile state s = [tiles, tc, sweep, mem,
\* crash]; pin = the addresses referenced from outside the table.
\* (The singleton {s0} has TLC evaluate the argument once.)
RECURSIVE check_max_mem(_, _, _)
check_max_mem(s0, pin, fuel) ==
    LET Sweep(s) ==
            IF InTable(s.tc) = {} \/ s.mem < cfg.max_memory \/ fuel = 0 \/ s.crash
            THEN s
            ELSE LET c1 == IF s.sweep.at = NoID THEN FirstTile(s.tc)
                           ELSE s.sweep.at
                     o == s.tc[c1]
                     r == TileRelease(s.tiles[o])
                     nx == [at |-> NextTile(s.tc, c1), ok |-> TRUE]
                 IN  IF r.was
                     THEN check_max_mem(
                              [s EXCEPT !.tiles[o] = r.tl, !.sweep = nx],
                              pin, fuel - 1)
                     ELSE \* erase the entry; the tile dies unless referenced
                          \* elsewhere
                          check_max_mem(
                              IF o \in pin
                              THEN [s EXCEPT !.tc[c1] = 0, !.sweep = nx]
                              ELSE [s EXCEPT !.tc[c1] = 0, !.sweep = nx,
                                             !.tiles = Without(@, {o}),
                                             !.mem = @ - memsize(s.tiles[o])],
                              pin, fuel - 1)
    IN  CHOOSE r \in {Sweep(s) : s \in {s0}} : TRUE

TileSweepFuel == 2 * Cardinality(TileIDs) + 1

\* The sweep dereferences m_tile_sweep: a dangling cursor is undefined
\* behaviour, the process dies or the cursor acts as some position of the table.
Crash == [at |-> NoID, ok |-> FALSE]
Hows(tc, sw) ==
    IF sw.ok THEN {EndSweep}
    ELSE {Crash} \cup {[at |-> i, ok |-> TRUE] : i \in InTable(tc) \cup {NoID}}

\* add_tile_to_cache without check_max_mem.
add_tile_to_cache_NoSweep(sa, o, pin, how) ==
    [sa EXCEPT !.tc[<<sa.tiles[o].file, sa.tiles[o].x>>] = o]

\* ImageCacheImpl::add_tile_to_cache: check_max_mem, then
\* m_tilecache[id] = tile.  o is the new tile's address, how resolves a
\* dangling cursor.
add_tile_to_cache(sa, o, pin, how) ==
    LET Insert(s1) ==
            LET id == <<s1.tiles[o].file, s1.tiles[o].x>>
                old == s1.tc[id]
                dies == old # 0 /\ old # o /\ old \notin pin
            IN  IF s1.crash THEN s1
                ELSE IF dies
                THEN [s1 EXCEPT !.tc[id] = o, !.tiles = Without(@, {old}),
                                !.mem = @ - memsize(s1.tiles[old])]
                ELSE [s1 EXCEPT !.tc[id] = o]
        Add(s) ==
            LET deref == ~s.sweep.ok /\ InTable(s.tc) # {}
                              /\ s.mem >= cfg.max_memory
                s0 == IF ~deref THEN s
                      ELSE IF how = Crash THEN [s EXCEPT !.crash = TRUE]
                      ELSE [s EXCEPT !.sweep = how]
            IN  CHOOSE r \in {Insert(s1) :
                              s1 \in {check_max_mem(s0, pin \cup {o},
                                                    TileSweepFuel)}} : TRUE
    IN  CHOOSE r \in {Add(s) : s \in {sa}} : TRUE

RECURSIVE SumSize(_, _)
SumSize(T, S) ==
    IF S = {} THEN 0
    ELSE CHOOSE r \in {memsize(T[o]) + SumSize(T, S \ {o}) :
                           o \in {CHOOSE q \in S : TRUE}} : TRUE

\* A destructor that leaves m_mem_used alone.
Destroy_NoDecr(T, tc, pin, mem) ==
    [tiles |-> Without(T, {o \in DOMAIN T :
                              o \notin pin /\ \A id \in TileIDs : tc[id] # o}),
     mem |-> mem]

\* ImageCacheTile::~ImageCacheTile for every tile whose last reference is gone:
\* decr_tiles (memsize ()).
Destroy(T, tc, pin, mem) ==
    LET Dead(U, p) == {o \in DOMAIN U : o \notin p /\ \A id \in TileIDs : tc[id] # o}
    IN  CHOOSE r \in {[tiles |-> Without(U, dead), mem |-> mem - SumSize(U, dead)] :
                          U \in {T}, dead \in {Dead(T, pin)}} : TRUE

(***************************************************************************)
(* Per-thread info and the steps of the public operations.                 *)
(***************************************************************************)
NoInfo == [registered |-> FALSE, purge |-> FALSE, tile |-> 0, lasttile |-> 0,
           shared |-> FALSE, tss |-> FALSE, freed |-> 0]
(***************************************************************************)
(* get_image_info.  A TypeDesc is a basetype and an arraylen, 0 for a       *)
(* scalar.  Every image has the same metadata: "count" is an int, "gamma" a *)
(* float, "size" two ints and "offset" two floats; it is 2 pixels wide, 1   *)
(* high and has 1 channel.                                                  *)
(***************************************************************************)
TypeDesc(b, len) == [basetype |-> b, arraylen |-> len]
TypeDescs == {TypeDesc(b, len) : b \in {"INT", "FLOAT", "STRING"}, len \in {0, 2}}
DataNames == {"resolution", "channels", "count", "gamma", "size", "offset",
              "missing"}

\* spec.find_attribute (dataname): the parameter, its type and its data.
NoAttribute == [type |-> TypeDesc("NONE", 0), data |-> <<>>]
find_attribute(dn) ==
    CASE dn = "count" -> [type |-> TypeDesc("INT", 0), data |-> <<7>>]
      [] dn = "gamma" -> [type |-> TypeDesc("FLOAT", 0), data |-> <<2>>]
      [] dn = "size" -> [type |-> TypeDesc("INT", 2), data |-> <<3, 4>>]
      [] dn = "offset" -> [type |-> TypeDesc("FLOAT", 2), data |-> <<5, 6>>]
      [] OTHER -> NoAttribute

\* What the caller's buffer holds: values of a basetype, or nothing written.
NoData == [basetype |-> "NONE", vals |-> <<>>]
Data(b, vals) == [basetype |-> b, vals |-> vals]

\* What an int read through a pointer to the bytes of a float may give.
Punned == {100, 101}

\* The arguments of get_image_info; pun is what its read of a float's bytes
\* as an int gives in this call.
NoQuery == [dataname |-> "none", datatype |-> TypeDesc("NONE", 0), pun |-> 0]

\* get_image_info after its check of file->broken (): "resolution" and
\* "channels" of the names it knows, then the attributes of the spec.
ImageInfo(q) ==
    LET dn == q.dataname
        dt == q.datatype
        p == find_attribute(dn)
    IN  IF dn = "resolution" /\ dt = TypeDesc("INT", 2)
        THEN [ret |-> "true", out |-> Data("INT", <<2, 1>>)]
        ELSE IF dn = "channels" /\ dt = TypeDesc("INT", 0)
        THEN [ret |-> "true", out |-> Data("INT", <<1>>)]
        ELSE IF dn = "channels" /\ dt = TypeDesc("FLOAT", 0)
        THEN [ret |-> "true", out |-> Data("FLOAT", <<1>>)]
        ELSE IF p # NoAttribute /\ p.type.arraylen = dt.arraylen
        THEN IF p.type = dt
             THEN [ret |-> "true", out |-> Data(dt.basetype, p.data)]
             ELSE IF p.type.basetype = "FLOAT" /\ dt.basetype = "INT"
             THEN \* the loop runs arraylen times: not at all for a scalar
                  [ret |-> "true",
                   out |-> IF p.type.arraylen = 0 THEN NoData
                           ELSE Data("FLOAT",
                                     [i \in 1 .. p.type.arraylen |-> q.pun])]
             ELSE [ret |-> "false", out |-> NoData]
        ELSE [ret |-> "false", out |-> NoData]

\* What a call adds to the statistics of its thread.
NoMisses == [find_tile_microcache_misses |-> 0, find_tile_cache_misses |-> 0]

\* An operation and its arguments: out is the result buffer of get_pixels,
\* again tells that the thread's call before this one was the same get_tile,
\* returned a tile, and no purge was asked for since.
NoOp == [kind |-> "none", name |-> NoName, x |-> 0, xend |-> 0, ok |-> TRUE,
         todo |-> <<>>, force |-> FALSE, before |-> <<>>, out |-> <<>>,
         again |-> FALSE, stats |-> NoMisses, info |-> NoQuery]

\* A purge that forgets the previous tile.
get_perthread_info_KeepLast(p) ==
    LET q == IF p.registered THEN p
             ELSE [p EXCEPT !.tss = TRUE, !.registered = TRUE, !.shared = TRUE]
    IN  IF q.purge THEN [q EXCEPT !.tile = 0, !.purge = FALSE] ELSE q

\* ImageCacheImpl::get_perthread_info
get_perthread_info(p) ==
    LET q == IF p.registered THEN p
             ELSE [p EXCEPT !.tss = TRUE, !.registered = TRUE, !.shared = TRUE]
    IN  IF q.purge
        THEN [q EXCEPT !.tile = 0, !.lasttile = 0, !.purge = FALSE]
        ELSE q

\* A thread that never leaves check_max_files keeps m_filemutex write-locked;
\* so does, until it returns, a thread inside ImageCacheFile::invalidate.
FileLocked == \E u \in Threads : pc[u] \in {"spin", "inv_reopen"}

\* The bound on m_timesopened: no operation that may open n's reader starts
\* once the record was opened MaxOpens times.
OpensLeft(n) == files[Canonical(files, n)].timesopened < MaxOpens

TileOrigin(f, x) == x - (x % TileWidth(f))
TID(tl) == <<tl.file, tl.x>>

\* What stays of an operation's arguments once it has returned.
Done(o) == [NoOp EXCEPT !.kind = o.kind, !.name = o.name, !.out = o.out,
                       !.x = IF o.kind \in {"tile", "imagespec"} THEN o.x ELSE 0,
                       !.stats = o.stats, !.info = o.info]

\* What get_imagespec, get_pixels and get_tile do with the record r that
\* find_file returned: the checks of broken() and of the subimage range.
AfterFind(o, r, fs) ==
    IF o.kind = "imagespec"
    THEN [pc |-> "idle", op |-> Done(o),
          ret |-> IF ~fs[r].broken /\ o.x < fs[r].nspec THEN "true" ELSE "false"]
    ELSE IF o.kind = "info"
    THEN LET i == IF fs[r].broken THEN [ret |-> "false", out |-> NoData]
                  ELSE ImageInfo(o.info)
         IN  [pc |-> "idle", op |-> Done([o EXCEPT !.out = i.out]), ret |-> i.ret]
    ELSE IF fs[r].broken \/ (o.kind = "pixels" /\ ~(0 < fs[r].nspec))
    THEN [pc |-> "idle", op |-> Done(o), ret |-> "false"]
    ELSE [pc |-> "ft_lookup", op |-> o, ret |-> "none"]

\* The entry of get_imagespec / get_pixels / get_tile: get_perthread_info,
\* then find_file's lookup under the read lock.
QueryWith(t, k, n, xb, xe, q) ==
    /\ ~crashed /\ pc[t] = "idle" /\ ~FileLocked
    /\ k \notin {"imagespec", "info"} => OpensLeft(n)
    /\ LET o == [NoOp EXCEPT
                    !.kind = k, !.name = n, !.x = xb, !.xend = xe, !.info = q,
                    !.out = IF k = "pixels"
                            THEN [x \in xb .. xe - 1 |-> Untouched]
                            ELSE IF k = "info" THEN NoData ELSE <<>>,
                    !.again = /\ k = "tile" /\ op[t].kind = "tile"
                              /\ op[t].name = n /\ op[t].x = xb
                              /\ ret[t] = "true" /\ ~pti[t].purge]
           p == [pti EXCEPT ![t] = get_perthread_info(@)]
           d == Destroy(tiles, tilecache, Pinned(tiles, p, newtile), mem_used)
       IN  /\ pti' = p
           /\ tiles' = d.tiles /\ mem_used' = d.mem
           /\ IF files[n].present
              THEN LET r == Canonical(files, n)
                       fs == Use(files, r)
                       c == AfterFind(o, r, fs)
                   IN  /\ files' = fs
                       /\ file' = [file EXCEPT ![t] = r]
                       /\ op' = [op EXCEPT ![t] = c.op]
                       /\ pc' = [pc EXCEPT ![t] = c.pc]
                       /\ ret' = [ret EXCEPT ![t] = c.ret]
              ELSE /\ files' = files
                   /\ op' = [op EXCEPT ![t] = o]
                   /\ file' = [file EXCEPT ![t] = NoName]
                   /\ pc' = [pc EXCEPT ![t] = "ff_create"]
                   /\ ret' = [ret EXCEPT ![t] = "none"]
    /\ raced' = [raced EXCEPT ![t] = FALSE]
    /\ UNCHANGED <<envvars, fingerprints, file_sweep, open_files, unique_files,
                   tilecache, tile_sweep, tf, newtile, crashed>>

Query(t, k, n, xb, xe) == QueryWith(t, k, n, xb, xe, NoQuery)

GetImagespec(t, n) == Query(t, "imagespec", n, 0, 1)
GetImagespecAt(t, n, subimage) ==
    Query(t, "imagespec", n, subimage, subimage + 1)
GetImageInfo(t, n, dn, dt, pun) ==
    QueryWith(t, "info", n, 0, 1,
              [dataname |-> dn, datatype |-> dt, pun |-> pun])
GetPixels(t, n, xb, xe) == Query(t, "pixels", n, xb, xe)
GetTile(t, n, x) ==
    /\ Cardinality({o \in DOMAIN tiles : tiles[o].handles > 0}) < MaxHandles
    /\ Query(t, "tile", n, x, x + 1)

\* find_file: new ImageCacheFile (*this, thread_info, filename), no lock held.
FFCreate(t) ==
    /\ ~crashed /\ pc[t] = "ff_create"
    /\ LET r == NewFile(op[t].name)
       IN  /\ tf' = [tf EXCEPT ![t] = r.f]
           /\ open_files' = open_files + r.inc
    /\ pc' = [pc EXCEPT ![t] = "ff_insert"]
    /\ UNCHANGED <<envvars, files, fingerprints, file_sweep, unique_files,
                   tilevars, pti, op, file, newtile, ret, raced, crashed>>

\* find_file from ic_write_lock writeguard (m_filemutex) to its return.
FFInsert(t) ==
    /\ ~crashed /\ pc[t] = "ff_insert" /\ ~FileLocked
    /\ LET n == op[t].name
       IN  IF Added(n)
           THEN LET l == LostRace(tf[t], n)
                    k == AfterFind(op[t], l.ret, l.files)
                IN  /\ files' = l.files
                    /\ open_files' = open_files - l.dec
                    /\ file' = [file EXCEPT ![t] = l.ret]
                    /\ op' = [op EXCEPT ![t] = k.op]
                    /\ pc' = [pc EXCEPT ![t] = k.pc]
                    /\ ret' = [ret EXCEPT ![t] = k.ret]
                    /\ tf' = [tf EXCEPT ![t] = NoFile]
                    /\ raced' = [raced EXCEPT ![t] = TRUE]
                    /\ UNCHANGED <<fingerprints, file_sweep, unique_files>>
           ELSE LET i == InsertFile(n, tf[t])
                    k == AfterFind(op[t], i.ret, i.files)
                IN  /\ fingerprints' = i.fingerprints
                    /\ raced' = raced
                    /\ file_sweep' = i.sweep
                    /\ open_files' = i.cnt
                    /\ IF i.spin
                       THEN /\ files' = i.swept
                            /\ pc' = [pc EXCEPT ![t] = "spin"]
                            /\ UNCHANGED <<unique_files, file, op, ret, tf>>
                       ELSE /\ files' = i.files
                            /\ op' = [op EXCEPT ![t] = k.op]
                            /\ unique_files' = i.unique
                            /\ file' = [file EXCEPT ![t] = i.ret]
                            /\ pc' = [pc EXCEPT ![t] = k.pc]
                            /\ ret' = [ret EXCEPT ![t] = k.ret]
                            /\ tf' = [tf EXCEPT ![t] = NoFile]
    /\ UNCHANGED <<envvars, tilevars, pti, newtile, crashed>>

\* get_pixels after find_tile: a is thread_info->tile and T the tiles; the
\* pixel is converted from the tile's buffer, or zero-filled when there is no
\* tile.  Then the loop moves to the next pixel, or get_pixels returns.
Advance(t, o0, good, a, T) ==
    LET px == IF a # 0 THEN T[a].data ELSE Zeros
        o == [o0 EXCEPT !.out[o0.x] = px]
        okk == o.ok /\ good
    IN  IF o.x + 1 < o.xend
        THEN /\ op' = [op EXCEPT ![t] = [o EXCEPT !.x = o.x + 1, !.ok = okk]]
             /\ pc' = [pc EXCEPT ![t] = "ft_lookup"]
             /\ ret' = ret
        ELSE /\ op' = [op EXCEPT ![t] = Done(o)]
             /\ pc' = [pc EXCEPT ![t] = "idle"]
             /\ ret' = [ret EXCEPT ![t] = IF okk THEN "true" ELSE "false"]

\* get_tile returns.
Return(t, o, good) ==
    /\ op' = [op EXCEPT ![t] = Done(o)]
    /\ pc' = [pc EXCEPT ![t] = "idle"]
    /\ ret' = [ret EXCEPT ![t] = IF good THEN "true" ELSE "false"]

\* A get_tile that uses the tile and takes no reference.
Handle_NoRef(T, a) == [T EXCEPT ![a].used = TRUE]

\* get_tile: tile->_incref (); tile->use ();
Handle(T, a) == [T EXCEPT ![a].used = TRUE, ![a].handles = @ + 1]

\* find_tile's microcache (get_pixels only), then find_tile_main_cache: it
\* counts a microcache miss, looks the tile up under the read lock of
\* m_tilemutex and counts a cache miss when the tile is not there.
FTLookup(t) ==
    /\ ~crashed /\ pc[t] = "ft_lookup"
    /\ LET f == file[t]
           id == <<f, TileOrigin(f, op[t].x)>>
           p == pti[t]
           micro == op[t].kind = "pixels" /\ p.tile # 0
           hit1 == micro /\ TID(tiles[p.tile]) = id
           sw == IF micro /\ ~hit1
                 THEN [p EXCEPT !.tile = p.lasttile, !.lasttile = p.tile]
                 ELSE p
           hit2 == micro /\ ~hit1 /\ sw.tile # 0 /\ TID(tiles[sw.tile]) = id
           found == tilecache[id]
           o1 == [op[t] EXCEPT !.stats.find_tile_microcache_misses = @ + 1]
           o2 == [o1 EXCEPT !.stats.find_tile_cache_misses = @ + 1]
       IN  IF hit1 \/ hit2
           THEN /\ pti' = [pti EXCEPT ![t] = sw]
                /\ Advance(t, op[t], TRUE, sw.tile, tiles)
                /\ UNCHANGED <<tiles, mem_used>>
           ELSE IF found # 0
           THEN LET T == IF op[t].kind = "tile" THEN Handle(tiles, found)
                         ELSE [tiles EXCEPT ![found].used = TRUE]
                    pp == IF op[t].kind = "pixels"
                          THEN [pti EXCEPT ![t] = [sw EXCEPT !.tile = found]]
                          ELSE pti
                    d == Destroy(T, tilecache, Pinned(T, pp, newtile), mem_used)
                IN  /\ pti' = pp
                    /\ tiles' = d.tiles /\ mem_used' = d.mem
                    /\ IF op[t].kind = "tile"
                       THEN Return(t, o1, TRUE)
                       ELSE Advance(t, o1, TRUE, found, T)
           ELSE /\ pti' = [pti EXCEPT ![t] = sw]
                /\ pc' = [pc EXCEPT ![t] = "ft_read"]
                /\ op' = [op EXCEPT ![t] = o2]
                /\ UNCHANGED <<tiles, mem_used, ret>>
    /\ UNCHANGED <<envvars, filevars, tilecache, tile_sweep, tf, file, newtile,
                   raced, crashed>>

\* ImageCacheTile::ImageCacheTile
NewTile(f, x, good) ==
    [file |-> f, x |-> x, valid |-> good, used |-> good, handles |-> 0,
     data |-> IF good /\ disk[f].kind \notin {"bad", "noread"}
              THEN Bytes(f, x) ELSE FailedRead]

\* A row tile that takes its bytes from the start of the row buffer.
RowTile_FirstOffset(f, x) ==
    [NewTile(f, x, TRUE) EXCEPT
        !.data = IF @ = FailedRead THEN @ ELSE Bytes(f, 0)]

\* read_untiled: new ImageCacheTile (id, &buf[i*pixelsize], ...), the tile at
\* x built from the row buffer at its own offset.
RowTile(f, x) == NewTile(f, x, TRUE)

\* read_untiled's loop over the other tiles of the tile-row: each one not in
\* the cache is built from the row buffer (convert_image), counted by
\* incr_tiles and added by add_tile_to_cache.
RECURSIVE Prefetch(_, _, _, _, _)
Prefetch(sp, f, xp, pin, how) ==
    LET Row(s, xs) ==
            IF xs = {} \/ s.crash THEN s
            ELSE LET x == CHOOSE v \in xs : \A w \in xs : v <= w
                     a == NewAddr(s.tiles, <<f, x>>)
                     s1 == [s EXCEPT !.tiles = With(@, a, RowTile(f, x)),
                                     !.mem = @ + TileWidth(f)]
                 IN  Prefetch(IF s.tc[<<f, x>>] # 0 THEN s
                              ELSE add_tile_to_cache(s1, a, pin, how),
                              f, xs \ {x}, pin, how)
    IN  CHOOSE r \in {Row(s, xs) : s \in {sp}, xs \in {xp}} : TRUE

\* find_tile_main_cache: tile = new ImageCacheTile (id, thread_info), which
\* runs ImageCacheFile::read_tile under the file's m_input_mutex, then
\* incr_tiles (tile->memsize()).  No table lock is held.
FTRead(t) ==
    /\ ~crashed /\ pc[t] = "ft_read"
    /\ \E how \in Hows(tilecache, tile_sweep), o \in {FileOpen(files[file[t]], file[t])} :
         LET f == file[t]
             x == TileOrigin(f, op[t].x)
             ok == o.f.opened
             good == ok /\ disk[f].kind \notin {"bad", "noread"}
             a == NewAddr(tiles, <<f, x>>)
             s0 == [tiles |-> With(tiles, a, NewTile(f, x, good)),
                    tc |-> tilecache, sweep |-> tile_sweep,
                    mem |-> mem_used + TileWidth(f), crash |-> FALSE]
             row == {v \in Pixels : v % TileWidth(f) = 0 /\ v # x}
             pp == IF op[t].kind = "pixels"
                   THEN [pti EXCEPT ![t].tile = a] ELSE pti
             nt == [newtile EXCEPT ![t] = a]
         IN  /\ files' = [files EXCEPT ![f] = o.f]
             /\ open_files' = open_files + o.inc
             /\ \E s1 \in {IF ok /\ o.f.untiled /\ cfg.autotile
                           THEN Prefetch(s0, f, row,
                                         Pinned(tiles, pti, newtile) \cup {a},
                                         how)
                           ELSE s0} :
                  IF s1.crash
                  THEN /\ crashed' = TRUE
                       /\ UNCHANGED <<tilevars, pti, newtile, pc>>
                  ELSE \E d \in {Destroy(s1.tiles, s1.tc,
                                         Pinned(s1.tiles, pp, nt), s1.mem)} :
                         /\ crashed' = FALSE
                         /\ tiles' = d.tiles /\ mem_used' = d.mem
                         /\ tilecache' = s1.tc /\ tile_sweep' = s1.sweep
                         /\ pti' = pp /\ newtile' = nt
                         /\ pc' = [pc EXCEPT ![t] = "ft_add"]
    /\ UNCHANGED <<envvars, fingerprints, file_sweep, unique_files, op, tf,
                   file, ret, raced>>

\* find_tile_main_cache: add_tile_to_cache (tile, thread_info) and
\* return tile->valid(); get_tile then fakes an extra reference.
FTAdd(t) ==
    /\ ~crashed /\ pc[t] = "ft_add"
    /\ \E how \in Hows(tilecache, tile_sweep) :
       \E s1 \in {add_tile_to_cache(
                     [tiles |-> tiles, tc |-> tilecache, sweep |-> tile_sweep,
                      mem |-> mem_used, crash |-> FALSE],
                     newtile[t], Pinned(tiles, pti, newtile), how)} :
         LET a == newtile[t]
             good == tiles[a].valid
             keep == op[t].kind = "tile" /\ good
             T == IF keep THEN Handle(s1.tiles, a) ELSE s1.tiles
             nt == [newtile EXCEPT ![t] = 0]
         IN  IF s1.crash
             THEN /\ crashed' = TRUE
                  /\ UNCHANGED <<tilevars, newtile, pc, op, ret>>
             ELSE \E d \in {Destroy(T, s1.tc, Pinned(T, pti, nt), s1.mem)} :
                  /\ crashed' = FALSE
                  /\ tiles' = d.tiles /\ mem_used' = d.mem
                  /\ tilecache' = s1.tc /\ tile_sweep' = s1.sweep
                  /\ newtile' = nt
                  /\ IF op[t].kind = "tile"
                     THEN Return(t, op[t], good)
                     ELSE Advance(t, op[t], good, a, T)
    /\ UNCHANGED <<envvars, filevars, pti, tf, file, raced>>

\* ImageCacheImpl::release_tile
ReleaseTile(t, a) ==
    /\ ~crashed /\ pc[t] = "idle" /\ a \in DOMAIN tiles /\ tiles[a].handles > 0
    /\ LET T == [tiles EXCEPT ![a].used = TRUE, ![a].handles = @ - 1]
           d == Destroy(T, tilecache, Pinned(T, pti, newtile), mem_used)
       IN  /\ tiles' = d.tiles /\ mem_used' = d.mem
    /\ UNCHANGED <<envvars, filevars, tilecache, tile_sweep, pti, pc, op, tf,
                   file, newtile, ret, raced, crashed>>

\* The names of S in the order of the FilenameMap.
RECURSIVE InOrder(_)
InOrder(S) ==
    IF S = {} THEN <<>>
    ELSE LET n == CHOOSE m \in S : \A k \in S : NameIdx(m) <= NameIdx(k)
         IN  <<n>> \o InOrder(S \ {n})

\* ImageCacheImpl::invalidate: the lookup of the name under the read lock.
Invalidate(t, n) ==
    /\ ~crashed /\ pc[t] = "idle" /\ ~FileLocked
    /\ files[n].timesopened < MaxOpens
    /\ op' = [op EXCEPT ![t] = [NoOp EXCEPT !.kind = "invalidate", !.name = n]]
    /\ pc' = [pc EXCEPT ![t] = IF files[n].present THEN "inv_erase" ELSE "idle"]
    /\ ret' = [ret EXCEPT ![t] = "none"]
    /\ raced' = [raced EXCEPT ![t] = FALSE]
    /\ UNCHANGED <<envvars, filevars, tilevars, pti, tf, file, newtile, crashed>>

\* invalidate_all: the records whose files it puts on its list, the broken
\* ones and, unless force, those whose file has another last_write_time
\* than the record's mod_time ().
ToInvalidate(force) ==
    {n \in Present(files) :
        \/ files[n].broken
        \/ force
        \/ disk[n].mtime # files[n].mod_time}

\* ImageCacheImpl::invalidate_all: all_files, the filename () of every file
\* to invalidate, made under the read lock; invalidate (f) returns at once
\* for an f that is no key of m_files, so todo keeps the others, and the step
\* ends with invalidate's lookup of the first of them.  before is what
\* m_timesopened was for every record of the table when the call began.
InvalidateAll(t, force) ==
    /\ ~crashed /\ pc[t] = "idle" /\ ~FileLocked
    /\ \A n \in Names : files[n].timesopened < MaxOpens
    /\ LET all == ToInvalidate(force)
           all_files == {Resolved(n) : n \in all}
           todo == InOrder(all_files \cap Names)
       IN  /\ op' = [op EXCEPT ![t] =
                        [NoOp EXCEPT !.kind = "invalidate_all", !.todo = todo,
                                     !.force = force,
                                     !.before = [n \in Present(files) |->
                                                    files[n].timesopened],
                                     !.name = IF todo = <<>> THEN NoName
                                              ELSE Head(todo)]]
           /\ pc' = [pc EXCEPT ![t] = IF todo = <<>> THEN "ia_clear"
                                      ELSE "inv_erase"]
    /\ ret' = [ret EXCEPT ![t] = "none"]
    /\ raced' = [raced EXCEPT ![t] = FALSE]
    /\ UNCHANGED <<envvars, filevars, tilevars, pti, tf, file, newtile, crashed>>

\* invalidate: under the write lock of m_tilemutex, erase every tile of the file.
InvErase(t) ==
    /\ ~crashed /\ pc[t] = "inv_erase"
    /\ LET n == op[t].name
           tc == [id \in TileIDs |->
                     IF tilecache[id] # 0 /\ tiles[tilecache[id]].file = n
                     THEN 0 ELSE tilecache[id]]
           d == Destroy(tiles, tc, Pinned(tiles, pti, newtile), mem_used)
       IN  /\ tilecache' = tc
           /\ tile_sweep' = IF tile_sweep.at # NoID /\ tc[tile_sweep.at] = 0
                            THEN [tile_sweep EXCEPT !.ok = FALSE]
                            ELSE tile_sweep
           /\ tiles' = d.tiles /\ mem_used' = d.mem
    /\ pc' = [pc EXCEPT ![t] = "inv_file"]
    /\ UNCHANGED <<envvars, filevars, pti, op, tf, file, newtile, ret, raced,
                   crashed>>

\* invalidate: file->invalidate () under the write lock of m_filemutex.
InvFile(t) ==
    /\ ~crashed /\ pc[t] = "inv_file" /\ ~FileLocked
    /\ LET n == op[t].name
           r == FileInvalidate(files[n], n)
           p == [pti EXCEPT ![t] = get_perthread_info(@)]
           d == Destroy(tiles, tilecache, Pinned(tiles, p, newtile), mem_used)
       IN  /\ files' = [files EXCEPT ![n] = r.f]
           /\ open_files' = open_files + r.inc
           /\ pti' = p
           /\ tiles' = d.tiles /\ mem_used' = d.mem
    /\ pc' = [pc EXCEPT ![t] = "inv_purge"]
    /\ UNCHANGED <<envvars, fingerprints, file_sweep, unique_files, tilecache,
                   tile_sweep, op, tf, file, newtile, ret, raced, crashed>>

\* Mark the per-thread microcaches as invalid.
PurgeAll(p) == [u \in Threads |-> IF p[u].registered
                                  THEN [p[u] EXCEPT !.purge = TRUE] ELSE p[u]]

\* invalidate: the purge flags, under m_perthread_info_mutex; then
\* invalidate_all goes on to its next file.
InvPurge(t) ==
    /\ ~crashed /\ pc[t] = "inv_purge"
    /\ pti' = PurgeAll(pti)
    /\ IF op[t].kind = "invalidate"
       THEN /\ pc' = [pc EXCEPT ![t] = "idle"]
            /\ op' = [op EXCEPT ![t] = Done(@)]
       ELSE LET rest == Tail(op[t].todo)
            IN  /\ op' = [op EXCEPT ![t].todo = rest,
                                    ![t].name = IF rest = <<>> THEN NoName
                                                ELSE Head(rest)]
                /\ pc' = [pc EXCEPT ![t] = IF rest = <<>> THEN "ia_clear"
                                           ELSE "inv_erase"]
    /\ UNCHANGED <<envvars, filevars, tilevars, tf, file, newtile, ret, raced,
                   crashed>>

\* invalidate_all: m_fingerprints.clear () under the write lock, then the
\* purge flags.
IAClear(t) ==
    /\ ~crashed /\ pc[t] = "ia_clear" /\ ~FileLocked
    /\ fingerprints' = [fp \in FPs |-> NoName]
    /\ pti' = PurgeAll(pti)
    /\ pc' = [pc EXCEPT ![t] = "idle"]
    /\ op' = [op EXCEPT ![t] = Done(@)]
    /\ UNCHANGED <<envvars, files, file_sweep, open_files, unique_files,
                   tilevars, tf, file, newtile, ret, raced, crashed>>

(***************************************************************************)
(* get_imagespec and invalidate once more, cut at every access to m_spec:  *)
(* get_imagespec reads the record after find_file has returned, with no    *)
(* lock held, and ImageCacheFile::invalidate clears the list and fills it  *)
(* again under m_filemutex and the reader mutex.                           *)
(***************************************************************************)
\* get_imagespec (n, spec, subimage) up to the return of find_file, which
\* finds the record of n under the read lock.
FindSpec(t, n, subimage) ==
    /\ ~crashed /\ pc[t] = "idle" /\ ~FileLocked
    /\ files[n].present
    /\ LET p == [pti EXCEPT ![t] = get_perthread_info(@)]
           d == Destroy(tiles, tilecache, Pinned(tiles, p, newtile), mem_used)
           r == Canonical(files, n)
       IN  /\ pti' = p
           /\ tiles' = d.tiles /\ mem_used' = d.mem
           /\ files' = Use(files, r)
           /\ file' = [file EXCEPT ![t] = r]
    /\ op' = [op EXCEPT ![t] = [NoOp EXCEPT !.kind = "imagespec", !.name = n,
                                            !.x = subimage,
                                            !.xend = subimage + 1]]
    /\ pc' = [pc EXCEPT ![t] = "gs_check"]
    /\ ret' = [ret EXCEPT ![t] = "none"]
    /\ raced' = [raced EXCEPT ![t] = FALSE]
    /\ UNCHANGED <<envvars, fingerprints, file_sweep, open_files, unique_files,
                   tilecache, tile_sweep, tf, newtile, crashed>>

\* get_imagespec: file->broken (), then the range check of subimage against
\* file->subimages ().
SpecCheck(t) ==
    /\ ~crashed /\ pc[t] = "gs_check"
    /\ LET f == files[file[t]]
       IN  IF f.broken \/ ~(op[t].x < f.nspec)
           THEN /\ pc' = [pc EXCEPT ![t] = "idle"]
                /\ op' = [op EXCEPT ![t] = Done(@)]
                /\ ret' = [ret EXCEPT ![t] = "false"]
           ELSE /\ pc' = [pc EXCEPT ![t] = "gs_copy"]
                /\ UNCHANGED <<op, ret>>
    /\ UNCHANGED <<envvars, filevars, tilevars, pti, tf, file, newtile, raced,
                   crashed>>

\* What the read of an element m_spec does not have may do.
NoSuchSpec == {"crash", "junk"}
Junk == <<0 - 1, 0 - 1>>

\* get_imagespec: spec = file->spec (subimage); return true.  The spec is
\* left in out.
SpecCopy(t) ==
    /\ ~crashed /\ pc[t] = "gs_copy"
    /\ LET specs == files[file[t]].spec
       IN  \E how \in NoSuchSpec :
              LET there == op[t].x < Len(specs)
              IN  /\ crashed' = (~there /\ how = "crash")
                  /\ IF crashed' THEN UNCHANGED <<pc, op, ret>>
                     ELSE /\ pc' = [pc EXCEPT ![t] = "idle"]
                          /\ op' = [op EXCEPT ![t] =
                                       Done([@ EXCEPT !.out =
                                               <<IF there THEN specs[op[t].x + 1]
                                                 ELSE Junk>>])]
                          /\ ret' = [ret EXCEPT ![t] = "true"]
    /\ UNCHANGED <<envvars, filevars, tilevars, pti, tf, file, newtile, raced>>

\* invalidate: the write lock of m_filemutex, and file->invalidate () up to
\* its call of open.
InvClear(t) ==
    /\ ~crashed /\ pc[t] = "inv_file" /\ ~FileLocked
    /\ LET n == op[t].name
           c == FileClear(files[n])
       IN  /\ files' = [files EXCEPT ![n] = c.f]
           /\ open_files' = open_files - c.dec
    /\ pc' = [pc EXCEPT ![t] = "inv_reopen"]
    /\ UNCHANGED <<envvars, fingerprints, file_sweep, unique_files, tilevars,
                   pti, op, tf, file, newtile, ret, raced, crashed>>

\* file->invalidate (): open (imagecache().get_perthread_info()), and the
\* release of the write lock.
InvReopen(t) ==
    /\ ~crashed /\ pc[t] = "inv_reopen"
    /\ LET n == op[t].name
           o == FileOpen(files[n], n)
           p == [pti EXCEPT ![t] = get_perthread_info(@)]
           d == Destroy(tiles, tilecache, Pinned(tiles, p, newtile), mem_used)
       IN  /\ files' = [files EXCEPT ![n] = o.f]
           /\ open_files' = open_files + o.inc
           /\ pti' = p
           /\ tiles' = d.tiles /\ mem_used' = d.mem
    /\ pc' = [pc EXCEPT ![t] = "inv_purge"]
    /\ UNCHANGED <<envvars, fingerprints, file_sweep, unique_files, tilecache,
                   tile_sweep, op, tf, file, newtile, ret, raced, crashed>>

(***************************************************************************)
(* The TileIDs of get_pixels and get_tile, in x.  A spec has the origin x  *)
(* of its data window, its width and its tile width.                       *)
(***************************************************************************)
Min(a, b) == IF a < b THEN a ELSE b

\* The smallest power of two that is not below v.
RECURSIVE Pow2From(_, _)
Pow2From(p, v) == IF p >= v THEN p ELSE Pow2From(2 * p, v)
pow2roundup(v) == Pow2From(1, v)

\* The "autotile" attribute when it is on: the tile width of TileWidth ("c").
AutoTile == 1

\* a / b and a % b of C++ on ints, b > 0: the quotient is truncated towards
\* zero, the remainder has the sign of a.
CDiv(a, b) == IF a >= 0 THEN a \div b ELSE 0 - ((0 - a) \div b)
CRem(a, b) == a - b * CDiv(a, b)

\* m_spec of the record of n as ImageCacheFile::open has filled it: a tiled
\* file keeps its tile width; an untiled one gets that of "autotile", or
\* one tile for the whole image; every level open has added keeps the
\* origin and gets a tile width of its own.
TileSpecs(n) ==
    LET ws == files[n].spec
        TW(i) ==
            IF i = 1
            THEN IF ~files[n].untiled THEN TileWidth(n)
                 ELSE IF cfg.autotile THEN AutoTile
                 ELSE pow2roundup(ws[1][1])
            ELSE pow2roundup(IF cfg.autotile THEN Min(AutoTile, ws[i][1])
                             ELSE ws[i][1])
    IN  [i \in 1 .. Len(ws) |->
            [x |-> disk[n].x, width |-> ws[i][1], tile_width |-> TW(i)]]

\* get_pixels: int tx = x - (x % spec.tile_width), spec being file->spec ().
get_pixels_tx(specs, x) == x - CRem(x, specs[1].tile_width)

\* get_tile: the snap of x to the corner of the tile, spec being
\* file->spec ().
get_tile_x(specs, x) ==
    LET xtile == CDiv(x - specs[1].x, specs[1].tile_width)
    IN  specs[1].x + xtile * specs[1].tile_width

\* get_pixels or get_tile (kind k) for pixel x of a subimage of n, whose
\* record find_file finds, up to the TileID it makes: the TileID is left in
\* out.
TileIDOf(t, k, n, subimage, x) ==
    /\ ~crashed /\ pc[t] = "idle" /\ ~FileLocked
    /\ files[n].present
    /\ LET p == [pti EXCEPT ![t] = get_perthread_info(@)]
           d == Destroy(tiles, tilecache, Pinned(tiles, p, newtile), mem_used)
           r == Canonical(files, n)
           fs == Use(files, r)
           bad == \/ fs[r].broken
                  \/ k = "pixels" /\ ~(subimage < fs[r].nspec)
           o == [NoOp EXCEPT !.kind = k, !.name = n, !.x = x,
                             !.info.dataname = "subimage", !.info.pun = subimage]
           tx == IF k = "pixels" THEN get_pixels_tx(TileSpecs(r), x)
                 ELSE get_tile_x(TileSpecs(r), x)
       IN  /\ pti' = p
           /\ tiles' = d.tiles /\ mem_used' = d.mem
           /\ files' = fs
           /\ file' = [file EXCEPT ![t] = r]
           /\ op' = [op EXCEPT ![t] =
                        IF bad THEN Done(o)
                        ELSE [o EXCEPT !.out = <<[file |-> r,
                                                  subimage |-> subimage,
                                                  x |-> tx]>>]]
           /\ ret' = [ret EXCEPT ![t] = IF bad THEN "false" ELSE "none"]
    /\ raced' = [raced EXCEPT ![t] = FALSE]
    /\ UNCHANGED <<envvars, fingerprints, file_sweep, open_files, unique_files,
                   tilecache, tile_sweep, pc, tf, newtile, crashed>>

(***************************************************************************)
(* The end of a thread and of the cache.  Of the record of thread t,       *)
(* tss says that the thread-specific pointer of t holds it, registered     *)
(* that m_all_perthread_info does, and freed how often it was deleted.     *)
(***************************************************************************)
\* cleanup_perthread_info that deletes the record whoever shares it.
cleanup_perthread_info_Deletes(p) ==
    [p EXCEPT !.tile = 0, !.lasttile = 0, !.freed = @ + 1, !.shared = FALSE]

\* ImageCacheImpl::cleanup_perthread_info, under m_perthread_info_mutex.
cleanup_perthread_info(p) ==
    [p EXCEPT !.tile = 0, !.lasttile = 0,
              !.freed = IF ~p.shared THEN @ + 1 ELSE @,
              !.shared = FALSE]

\* ImageCacheImpl::erase_perthread_info, under m_perthread_info_mutex.
erase_perthread_info(P) ==
    [u \in Threads |->
        IF P[u].registered
        THEN [P[u] EXCEPT !.tile = 0, !.lasttile = 0,
                          !.freed = IF P[u].shared THEN @ ELSE @ + 1,
                          !.shared = FALSE,
                          !.registered = FALSE]
        ELSE P[u]]

\* ~ImageCacheImpl has run.
Destroyed == \E u \in Threads : pc[u] = "destroyed"

\* Thread t ends between two calls: the thread-specific pointer
\* m_perthread_info, made with &cleanup_perthread_info, hands the record
\* it holds to that function.
ThreadExit(t) ==
    /\ ~crashed
    /\ pc[t] = "idle" \/ (pc[t] = "destroyed" /\ pti[t].tss)
    /\ LET p == [pti EXCEPT ![t] =
                    IF @.tss THEN [cleanup_perthread_info(@) EXCEPT !.tss = FALSE]
                    ELSE @]
           d == Destroy(tiles, tilecache, Pinned(tiles, p, newtile), mem_used)
       IN  /\ pti' = p
           /\ tiles' = d.tiles /\ mem_used' = d.mem
    /\ pc' = [pc EXCEPT ![t] = IF @ = "idle" THEN "exited" ELSE @]
    /\ UNCHANGED <<envvars, filevars, tilecache, tile_sweep, op, tf, file,
                   newtile, ret, raced, crashed>>

\* ImageCacheImpl::~ImageCacheImpl, run by thread u while no call is in
\* progress: erase_perthread_info ().
EngineDestroy(u) ==
    /\ ~crashed /\ ~Destroyed
    /\ pc[u] = "idle"
    /\ \A t \in Threads : pc[t] \in {"idle", "exited"}
    /\ LET p == erase_perthread_info(pti)
           d == Destroy(tiles, tilecache, Pinned(tiles, p, newtile), mem_used)
       IN  /\ pti' = p
           /\ tiles' = d.tiles /\ mem_used' = d.mem
    /\ pc' = [pc EXCEPT ![u] = "destroyed"]
    /\ UNCHANGED <<envvars, filevars, tilecache, tile_sweep, op, tf, file,
                   newtile, ret, raced, crashed>>

\* The environment rewrites file n on disk.
Touch(n, k, at) ==
    /\ touches < MaxTouch
    /\ <<k, at>> # <<disk[n].kind, disk[n].attr>>
    /\ disk' = [disk EXCEPT ![n] = [@ EXCEPT !.kind = k, !.attr = at,
                                             !.mtime = @ + 1]]
    /\ touches' = touches + 1
    /\ UNCHANGED <<cfg, filevars, tilevars, pti, pc, op, tf, file, newtile,
                   ret, raced, crashed>>

(***************************************************************************)
(* The locks every step takes and the calls it makes on an ImageInput, in  *)
(* the order of the code.  An event is a lock or an unlock of a mutex (n   *)
(* names the record of an m_input_mutex) or a call on the reader of the    *)
(* record of file n.                                                       *)
(***************************************************************************)
Lock(l, n) == [e |-> "lock", l |-> l, n |-> n]
Unlock(l, n) == [e |-> "unlock", l |-> l, n |-> n]
Reader(c, n) == [e |-> "call", l |-> c, n |-> n]

\* A guard object: the lock, what happens in its scope, the unlock.
Guarded(l, n, inner) == <<Lock(l, n)>> \o inner \o <<Unlock(l, n)>>

\* get_perthread_info: registration and the purge both lock
\* m_perthread_info_mutex.
PerThreadEvents(p) ==
    (IF p.registered THEN <<>>
     ELSE Guarded("m_perthread_info_mutex", NoName, <<>>))
    \o (IF p.purge THEN Guarded("m_perthread_info_mutex", NoName, <<>>)
        ELSE <<>>)

\* The entry of a query: get_perthread_info, find_file's read lock.
EntryEvents(t) ==
    PerThreadEvents(pti[t]) \o Guarded("m_filemutex", NoName, <<>>)

\* The constructor of ImageCacheFile opens under the record's own mutex.
CreateEvents(t) ==
    Guarded("m_input_mutex", op[t].name, <<Reader("open", op[t].name)>>)

\* release () of every record of ns that check_max_files closes.
RECURSIVE ReleaseEvents(_)
ReleaseEvents(ns) ==
    IF ns = <<>> THEN <<>>
    ELSE Guarded("m_input_mutex", Head(ns), <<Reader("close", Head(ns))>>)
         \o ReleaseEvents(Tail(ns))

\* find_file under the write lock of m_filemutex: delete tf of the thread
\* that lost the race, whose destructor calls close (); else tf->close ()
\* of a duplicate, then check_max_files.
InsertEvents(t) ==
    LET n == op[t].name
        i == InsertFile(n, tf[t])
        closed == {r \in Names \ {n} :
                      files[r].opened /\ ~i.swept[r].opened}
    IN  Guarded("m_filemutex", NoName,
            IF Added(n)
            THEN IF tf[t].opened THEN <<Reader("close", n)>> ELSE <<>>
            ELSE (IF tf[t].opened /\ ~i.files[n].opened
                  THEN <<Reader("close", n)>> ELSE <<>>)
                 \o ReleaseEvents(InOrder(closed)))

\* find_tile_main_cache's lookup under the read lock of m_tilemutex, unless
\* find_tile found the tile in the microcache.
LookupEvents(t) ==
    LET id == <<file[t], TileOrigin(file[t], op[t].x)>>
        p == pti[t]
        micro == /\ op[t].kind = "pixels" /\ p.tile # 0
                 /\ \/ TID(tiles[p.tile]) = id
                    \/ p.lasttile # 0 /\ TID(tiles[p.lasttile]) = id
    IN  IF micro THEN <<>> ELSE Guarded("m_tilemutex", NoName, <<>>)

\* read_untiled's add_tile_to_cache for every tile of xs, the tiles of the
\* row that are not in the cache.
RECURSIVE RowEvents(_)
RowEvents(xs) ==
    IF xs = {} THEN <<>>
    ELSE LET x == CHOOSE v \in xs : \A w \in xs : v <= w
         IN  Guarded("m_tilemutex", NoName, <<>>) \o RowEvents(xs \ {x})

\* A tile read that calls find_file under the reader mutex.
ReadEvents_FindsFile(t) ==
    Guarded("m_input_mutex", file[t],
            Guarded("m_filemutex", NoName, <<>>) \o <<Reader("read", file[t])>>)

\* read_tile: under m_input_mutex the open, the read and, for an untiled
\* file under autotile, read_untiled's loop over the tile-row.
ReadEvents(t) ==
    LET f == file[t]
        o == FileOpen(files[f], f)
        x == TileOrigin(f, op[t].x)
        row == {v \in Pixels : /\ v % TileWidth(f) = 0 /\ v # x
                               /\ tilecache[<<f, v>>] = 0}
    IN  Guarded("m_input_mutex", f,
            (IF files[f].opened \/ files[f].broken THEN <<>>
             ELSE <<Reader("open", f)>>)
            \o (IF ~o.f.opened THEN <<>>
                ELSE <<Reader("read", f)>>
                     \o (IF o.f.untiled /\ cfg.autotile THEN RowEvents(row)
                         ELSE <<>>)))

\* add_tile_to_cache, and the erasure of invalidate: the write lock of
\* m_tilemutex.
TableEvents == Guarded("m_tilemutex", NoName, <<>>)

\* invalidate: file->invalidate () under the write lock of m_filemutex; it
\* locks m_input_mutex, closes, and opens with get_perthread_info ().
InvFileEvents(t) ==
    LET n == op[t].name
    IN  Guarded("m_filemutex", NoName,
            Guarded("m_input_mutex", n,
                (IF files[n].opened THEN <<Reader("close", n)>> ELSE <<>>)
                \o PerThreadEvents(pti[t])
                \o <<Reader("open", n)>>))

\* The purge flags, under m_perthread_info_mutex.
PurgeEvents == Guarded("m_perthread_info_mutex", NoName, <<>>)

\* invalidate_all: m_fingerprints.clear () under the write lock, the purge.
ClearEvents == Guarded("m_filemutex", NoName, <<>>) \o PurgeEvents

\* The events of the step that thread t takes next.
StepEvents(t) ==
    CASE pc[t] = "idle" -> EntryEvents(t)
      [] pc[t] = "ff_create" -> CreateEvents(t)
      [] pc[t] = "ff_insert" -> InsertEvents(t)
      [] pc[t] = "ft_lookup" -> LookupEvents(t)
      [] pc[t] = "ft_read" -> ReadEvents(t)
      [] pc[t] = "ft_add" -> TableEvents
      [] pc[t] = "inv_erase" -> TableEvents
      [] pc[t] = "inv_file" -> InvFileEvents(t)
      [] pc[t] = "inv_purge" -> PurgeEvents
      [] pc[t] = "ia_clear" -> ClearEvents
      [] OTHER -> <<>>

(***************************************************************************)
(* The cache after ImageCacheImpl::ImageCacheImpl and init ().             *)
(***************************************************************************)
InitCache ==
    /\ touches = 0
    /\ files = [n \in Names |-> NoFile]
    /\ fingerprints = [fp \in FPs |-> NoName]
    /\ file_sweep = EndIt
    /\ open_files = 0
    /\ unique_files = 0
    /\ tiles = <<>>
    /\ tilecache = [id \in TileIDs |-> 0]
    /\ tile_sweep = EndSweep
    /\ mem_used = 0
    /\ pti = [t \in Threads |-> NoInfo]
    /\ pc = [t \in Threads |-> "idle"]
    /\ op = [t \in Threads |-> NoOp]
    /\ tf = [t \in Threads |-> NoFile]
    /\ file = [t \in Threads |-> NoName]
    /\ newtile = [t \in Threads |-> 0]
    /\ ret = [t \in Threads |-> "none"]
    /\ raced = [t \in Threads |-> FALSE]
    /\ crashed = FALSE

\* The files at the start: all readable; "a" and "b" agree in the attributes
\* find_file compares, "c" differs from them.
Disk0 == [n \in Names |-> [kind |-> "ok", attr |-> IF n = "c" THEN 2 ELSE 1,
                           mtime |-> 0, x |-> 0, width |-> 2, height |-> 1,
                           textureformat |-> FALSE]]

\* The attributes of the cache: "automip" is off unless it is set.
Cfg0 == [accept_untiled |-> TRUE, autotile |-> TRUE, automip |-> FALSE,
         max_memory |-> MaxMemory]

Init ==
    /\ InitCache
    /\ disk = Disk0
    /\ cfg = Cfg0

Next ==
    \/ \E t \in Threads, n \in Names : GetImagespec(t, n)
    \/ \E t \in Threads, n \in Names, x \in Pixels : GetTile(t, n, x)
    \/ \E t \in Threads, n \in Names, xb \in Pixels, xe \in {1, 2} :
          xb < xe /\ GetPixels(t, n, xb, xe)
    \/ \E t \in Threads, a \in DOMAIN tiles : ReleaseTile(t, a)
    \/ \E t \in Threads, n \in Names : Invalidate(t, n)
    \/ \E t \in Threads, force \in BOOLEAN : InvalidateAll(t, force)
    \/ \E t \in Threads : FFCreate(t)
    \/ \E t \in Threads : FFInsert(t)
    \/ \E t \in Threads : FTLookup(t)
    \/ \E t \in Threads : FTRead(t)
    \/ \E t \in Threads : FTAdd(t)
    \/ \E t \in Threads : InvErase(t)
    \/ \E t \in Threads : InvFile(t)
    \/ \E t \in Threads : InvPurge(t)
    \/ \E t \in Threads : IAClear(t)
    \/ \E n \in Names, k \in DiskKinds, at \in DiskAttrs : Touch(n, k, at)

Spec == Init /\ [][Next]_vars

(***************************************************************************)
(* The specifications TLC explores to the end.  Each one gives the         *)
(* threads a menu of calls small enough for that; the steps are those of   *)
(* Next.                                                                   *)
(***************************************************************************)

\* The file table under two threads: both call get_imagespec on every name,
\* "t1" also invalidates.
NextFiles ==
    \/ \E t \in Threads, n \in Names : GetImagespec(t, n)
    \/ \E n \in Names : Invalidate("t1", n)
    \/ \E t \in Threads : FFCreate(t)
    \/ \E t \in Threads : FFInsert(t)
    \/ InvErase("t1")
    \/ InvFile("t1")
    \/ InvPurge("t1")

SpecFiles == Init /\ [][NextFiles]_vars

\* One thread that queries, reads the first tile of every file and
\* invalidates, while file "b" is damaged and repaired on disk.
NextLazy ==
    \/ \E n \in Names : GetImagespec("t1", n)
    \/ \E n \in Names : GetTile("t1", n, 0)
    \/ \E a \in DOMAIN tiles : ReleaseTile("t1", a)
    \/ \E n \in Names : Invalidate("t1", n)
    \/ FFCreate("t1")
    \/ FFInsert("t1")
    \/ FTLookup("t1")
    \/ FTRead("t1")
    \/ FTAdd("t1")
    \/ InvErase("t1")
    \/ InvFile("t1")
    \/ InvPurge("t1")
    \/ \E k \in {"ok", "bad"} : Touch("b", k, 1)

SpecLazy == Init /\ [][NextLazy]_vars

\* One thread with every tile query on the files "a" and "c".
TileNames == {"a", "c"}
NextTiles ==
    \/ \E n \in TileNames, x \in Pixels : GetTile("t1", n, x)
    \/ \E n \in TileNames, xb \in Pixels, xe \in {1, 2} :
          xb < xe /\ GetPixels("t1", n, xb, xe)
    \/ \E a \in DOMAIN tiles : ReleaseTile("t1", a)
    \/ \E n \in TileNames : Invalidate("t1", n)
    \/ FFCreate("t1")
    \/ FFInsert("t1")
    \/ FTLookup("t1")
    \/ FTRead("t1")
    \/ FTAdd("t1")
    \/ InvErase("t1")
    \/ InvFile("t1")
    \/ InvPurge("t1")

SpecTiles == Init /\ [][NextTiles]_vars

\* Two threads with get_pixels: "t1" on "a" and "c", and it invalidates them;
\* "t2" reads the first pixel of "a".
NextPurge ==
    \/ \E n \in TileNames, xb \in Pixels, xe \in {1, 2} :
          xb < xe /\ GetPixels("t1", n, xb, xe)
    \/ GetPixels("t2", "a", 0, 1)
    \/ \E n \in TileNames : Invalidate("t1", n)
    \/ \E t \in Threads : FFCreate(t)
    \/ \E t \in Threads : FFInsert(t)
    \/ \E t \in Threads : FTLookup(t)
    \/ \E t \in Threads : FTRead(t)
    \/ \E t \in Threads : FTAdd(t)
    \/ InvErase("t1")
    \/ InvFile("t1")
    \/ InvPurge("t1")

SpecPurge == Init /\ [][NextPurge]_vars

\* One thread that opens the files and invalidates them all, while the
\* attributes of file "b" are rewritten on disk.
NextForce ==
    \/ \E n \in Names : GetImagespec("t1", n)
    \/ \E force \in BOOLEAN : InvalidateAll("t1", force)
    \/ FFCreate("t1")
    \/ FFInsert("t1")
    \/ InvErase("t1")
    \/ InvFile("t1")
    \/ InvPurge("t1")
    \/ IAClear("t1")
    \/ \E at \in DiskAttrs : Touch("b", "ok", at)

SpecForce == Init /\ [][NextForce]_vars

\* One thread with every tile query on file "a", which it invalidates, while
\* the file becomes unreadable or unopenable on disk, or readable again.
NextFailed ==
    \/ \E x \in Pixels : GetTile("t1", "a", x)
    \/ \E xb \in Pixels, xe \in {1, 2} : xb < xe /\ GetPixels("t1", "a", xb, xe)
    \/ \E a \in DOMAIN tiles : ReleaseTile("t1", a)
    \/ Invalidate("t1", "a")
    \/ FFCreate("t1")
    \/ FFInsert("t1")
    \/ FTLookup("t1")
    \/ FTRead("t1")
    \/ FTAdd("t1")
    \/ InvErase("t1")
    \/ InvFile("t1")
    \/ InvPurge("t1")
    \/ \E k \in {"ok", "bad", "noread"} : Touch("a", k, 1)

SpecFailed == Init /\ [][NextFailed]_vars

\* Two threads with get_pixels and no invalidation: both read the pixels of
\* the untiled file "c", "t1" also the first pixel of "a", while "c" is
\* rewritten on disk.
NextBytes ==
    \/ \E x \in Pixels : GetPixels("t1", "c", x, x + 1)
    \/ GetPixels("t1", "a", 0, 1)
    \/ GetPixels("t2", "c", 1, 2)
    \/ \E t \in Threads : FFCreate(t)
    \/ \E t \in Threads : FFInsert(t)
    \/ \E t \in Threads : FTLookup(t)
    \/ \E t \in Threads : FTRead(t)
    \/ \E t \in Threads : FTAdd(t)
    \/ \E at \in DiskAttrs : Touch("c", "ok", at)

SpecBytes == Init /\ [][NextBytes]_vars

\* Tile handles under two threads: "t1" takes and releases handles on the
\* first tile of "a"; "t2" reads the pixels of "a" and "c", which fills the
\* cache, and invalidates "a".
NextHandles ==
    \/ GetTile("t1", "a", 0)
    \/ \E a \in DOMAIN tiles : ReleaseTile("t1", a)
    \/ \E n \in TileNames : GetPixels("t2", n, 0, 2)
    \/ Invalidate("t2", "a")
    \/ \E t \in Threads : FFCreate(t)
    \/ \E t \in Threads : FFInsert(t)
    \/ \E t \in Threads : FTLookup(t)
    \/ \E t \in Threads : FTRead(t)
    \/ \E t \in Threads : FTAdd(t)
    \/ InvErase("t2")
    \/ InvFile("t2")
    \/ InvPurge("t2")

SpecHandles == Init /\ [][NextHandles]_vars

\* One thread that asks for the metadata of two files.
NextInfo ==
    \/ \E n \in TileNames, dn \in DataNames, dt \in TypeDescs, pun \in Punned :
          GetImageInfo("t1", n, dn, dt, pun)
    \/ FFCreate("t1")
    \/ FFInsert("t1")

SpecInfo == Init /\ [][NextInfo]_vars

\* Thread "t1" asks for the specs of the files, which inserts records and
\* sweeps; thread "t2" reads the pixels of "a" and "c".
NextChance ==
    \/ \E n \in Names : GetImagespec("t1", n)
    \/ \E n \in TileNames, x \in Pixels : GetPixels("t2", n, x, x + 1)
    \/ \E t \in Threads : FFCreate(t)
    \/ \E t \in Threads : FFInsert(t)
    \/ FTLookup("t2")
    \/ FTRead("t2")
    \/ FTAdd("t2")

SpecChance == Init /\ [][NextChance]_vars

\* The calls of SpecTiles under every memory budget up to MaxMemory + 1.
InitSweep ==
    /\ InitCache
    /\ disk = Disk0
    /\ \E m \in 1 .. MaxMemory + 1 : cfg = [Cfg0 EXCEPT !.max_memory = m]

SpecSweep == InitSweep /\ [][NextTiles]_vars

\* Two threads that read the pixels of the scanline file "c", whose tiles
\* are inserted a row at a time, under every memory budget up to
\* MaxMemory + 1.
NextCollide ==
    \/ \E t \in Threads, x \in Pixels : GetPixels(t, "c", x, x + 1)
    \/ \E t \in Threads : FFCreate(t)
    \/ \E t \in Threads : FFInsert(t)
    \/ \E t \in Threads : FTLookup(t)
    \/ \E t \in Threads : FTRead(t)
    \/ \E t \in Threads : FTAdd(t)

SpecCollide == InitSweep /\ [][NextCollide]_vars

\* One thread that asks for the specs of the levels of a tiled and of a
\* scanline file, of every size in Sizes, with "automip" on or off and with
\* or without a "textureformat" attribute.
Sizes == {1, 2, 3, 100}
MaxSubimage == 3

InitMip ==
    /\ InitCache
    /\ \E am \in BOOLEAN :
          cfg = [Cfg0 EXCEPT !.automip = am]
    /\ \E w \in Sizes, h \in Sizes, tfs \in SUBSET TileNames :
          disk = [n \in Names |->
                    [Disk0[n] EXCEPT !.width = w, !.height = h,
                                     !.textureformat = n \in tfs]]

NextMip ==
    \/ \E n \in TileNames, s \in 0 .. MaxSubimage : GetImagespecAt("t1", n, s)
    \/ FFCreate("t1")
    \/ FFInsert("t1")

SpecMip == InitMip /\ [][NextMip]_vars

\* The file table with "accept_untiled" on or off: "t1" asks for the specs
\* of the files "a" and "c" and invalidates them, "t2" asks for those of the
\* scanline file "c", while the two files are damaged and repaired on disk.
InitCount ==
    /\ InitCache
    /\ disk = Disk0
    /\ \E au \in BOOLEAN : cfg = [Cfg0 EXCEPT !.accept_untiled = au]

NextCount ==
    \/ \E n \in TileNames : GetImagespec("t1", n)
    \/ GetImagespec("t2", "c")
    \/ \E n \in TileNames : Invalidate("t1", n)
    \/ \E t \in Threads : FFCreate(t)
    \/ \E t \in Threads : FFInsert(t)
    \/ InvErase("t1")
    \/ InvFile("t1")
    \/ InvPurge("t1")
    \/ \E n \in TileNames, k \in {"ok", "bad", "chan"} :
          Touch(n, k, disk[n].attr)

SpecCount == InitCount /\ [][NextCount]_vars

\* Thread "t2" reads the pixels of file "a" while thread "t1" invalidates
\* the file, which is rewritten on disk once, with other attributes.
NextStale ==
    \/ \E x \in Pixels : GetPixels("t2", "a", x, x + 1)
    \/ Invalidate("t1", "a")
    \/ FFCreate("t2")
    \/ FFInsert("t2")
    \/ FTLookup("t2")
    \/ FTRead("t2")
    \/ FTAdd("t2")
    \/ InvErase("t1")
    \/ InvFile("t1")
    \/ InvPurge("t1")
    \/ touches = 0 /\ Touch("a", "ok", 2)

SpecStale == Init /\ [][NextStale]_vars

\* Two threads with every public call, under "automip": "t1" reads tiles
\* and pixels of the scanline file "c" and asks for its spec, "t2"
\* invalidates the file or all files and reads the first pixel of "a".
InitLocks ==
    /\ InitCache
    /\ disk = Disk0
    /\ cfg = [Cfg0 EXCEPT !.automip = TRUE]

NextLocks ==
    \/ GetImagespec("t1", "c")
    \/ GetTile("t1", "c", 0)
    \/ \E a \in DOMAIN tiles : ReleaseTile("t1", a)
    \/ GetPixels("t1", "c", 0, 2)
    \/ GetPixels("t2", "a", 0, 1)
    \/ Invalidate("t2", "c")
    \/ \E force \in BOOLEAN : InvalidateAll("t2", force)
    \/ \E t \in Threads : FFCreate(t)
    \/ \E t \in Threads : FFInsert(t)
    \/ \E t \in Threads : FTLookup(t)
    \/ \E t \in Threads : FTRead(t)
    \/ \E t \in Threads : FTAdd(t)
    \/ InvErase("t2")
    \/ InvFile("t2")
    \/ InvPurge("t2")
    \/ IAClear("t2")

SpecLocks == InitLocks /\ [][NextLocks]_vars

\* Thread "t1" asks for the specs of the files "a" and "c", its
\* get_imagespec cut at every read of the record, while thread "t2" opens
\* and invalidates the files, its invalidate cut inside file->invalidate ().
NextRace ==
    \/ \E n \in TileNames, s \in 0 .. 1 : FindSpec("t1", n, s)
    \/ SpecCheck("t1")
    \/ SpecCopy("t1")
    \/ \E n \in TileNames : GetImagespec("t2", n)
    \/ FFCreate("t2")
    \/ FFInsert("t2")
    \/ \E n \in TileNames : Invalidate("t2", n)
    \/ InvErase("t2")
    \/ InvClear("t2")
    \/ InvReopen("t2")
    \/ InvPurge("t2")

SpecRace == Init /\ [][NextRace]_vars

\* One thread that asks for the TileIDs of the pixels of every subimage of
\* a tiled and of a scanline file, for every origin in Origins and width
\* in Widths, with "autotile" and "automip" on or off.
Origins == {0 - 1, 0, 1}
Widths == {2, 3, 5}

InitAlign ==
    /\ InitCache
    /\ \E am \in BOOLEAN, at \in BOOLEAN :
          cfg = [Cfg0 EXCEPT !.automip = am, !.autotile = at]
    /\ \E x0 \in Origins, w \in Widths :
          disk = [n \in Names |-> [Disk0[n] EXCEPT !.x = x0, !.width = w]]

NextAlign ==
    \/ \E n \in TileNames : GetImagespec("t1", n)
    \/ FFCreate("t1")
    \/ FFInsert("t1")
    \/ \E k \in {"pixels", "tile"}, n \in TileNames, s \in 0 .. MaxSubimage,
          x \in 0 - 1 .. 5 :
          /\ s < Len(files[n].spec)
          /\ x - disk[n].x \in 0 .. files[n].spec[s + 1][1] - 1
          /\ TileIDOf("t1", k, n, s, x)

SpecAlign == InitAlign /\ [][NextAlign]_vars

\* One thread with every tile query on the scanline file "c", read in
\* tile-rows under "autotile", while its scanlines become unreadable on disk,
\* or readable again.
NextRow ==
    \/ \E x \in Pixels : GetTile("t1", "c", x)
    \/ \E xb \in Pixels, xe \in {1, 2} : xb < xe /\ GetPixels("t1", "c", xb, xe)
    \/ \E a \in DOMAIN tiles : ReleaseTile("t1", a)
    \/ FFCreate("t1")
    \/ FFInsert("t1")
    \/ FTLookup("t1")
    \/ FTRead("t1")
    \/ FTAdd("t1")
    \/ \E k \in {"ok", "noread"} : Touch("c", k, 2)

SpecRow == Init /\ [][NextRow]_vars

\* One thread that opens the files and calls invalidate_all (false) again
\* and again, while file "b" is rewritten on disk once.
NextTwice ==
    \/ \E n \in Names : GetImagespec("t1", n)
    \/ InvalidateAll("t1", FALSE)
    \/ FFCreate("t1")
    \/ FFInsert("t1")
    \/ InvErase("t1")
    \/ InvFile("t1")
    \/ InvPurge("t1")
    \/ IAClear("t1")
    \/ touches = 0 /\ Touch("b", "ok", 2)

SpecTwice == Init /\ [][NextTwice]_vars

\* Two threads that end, and one of them destroys the cache: "t1" reads the
\* first pixel of "a", "t2" queries and invalidates it.
NextExit ==
    \/ ~Destroyed /\ GetPixels("t1", "a", 0, 1)
    \/ ~Destroyed /\ GetImagespec("t2", "a")
    \/ ~Destroyed /\ Invalidate("t2", "a")
    \/ \E t \in Threads : FFCreate(t)
    \/ \E t \in Threads : FFInsert(t)
    \/ FTLookup("t1")
    \/ FTRead("t1")
    \/ FTAdd("t1")
    \/ InvErase("t2")
    \/ InvFile("t2")
    \/ InvPurge("t2")
    \/ \E t \in Threads : ThreadExit(t)
    \/ \E u \in Threads : EngineDestroy(u)

SpecExit == Init /\ [][NextExit]_vars

(***************************************************************************)
(* Properties.                                                             *)
(***************************************************************************)
\* No operation is in progress on any thread.
Quiescent == \A t \in Threads : pc[t] = "idle"

\* The FileRecords of by_name that hold an open reader.
OpenRecords == {n \in Names : files[n].present /\ files[n].opened}

\* C1, as the specification states it: whenever every operation has
\* returned, at most max_open_files records hold an open reader.
C1_OpenFileBudget == Quiescent => Cardinality(OpenRecords) <= MaxOpenFiles

\* C4: every record of by_name with a non-null duplicate pointer points to
\* a record whose own duplicate pointer is null.
C4_DuplicateChain ==
    \A n \in Names :
        files[n].present /\ files[n].duplicate # NoName
            => files[files[n].duplicate].duplicate = NoName

\* C4's case: a duplicate whose canonical record was invalidated and reopened
\* after the duplicate was made.
C4_Witness ==
    \E n \in Names :
        /\ files[n].present /\ files[n].duplicate # NoName
        /\ files[files[n].duplicate].timesopened > 1
        /\ Quiescent

\* Two names of by_name whose readable files carry the same non-empty
\* fingerprint and the same compared attributes.
SameImage(n, m) ==
    /\ n # m /\ files[n].present /\ files[m].present
    /\ ~files[n].broken /\ ~files[m].broken
    /\ disk[n].kind = "ok" /\ disk[m].kind = "ok"
    /\ DiskFingerprint(n) # 0 /\ DiskFingerprint(n) = DiskFingerprint(m)
    /\ disk[n].attr = disk[m].attr

\* C6, as the specification states it: whenever every operation has
\* returned, two names in by_name whose files carry the same non-empty
\* fingerprint and the same compared attributes lead to one canonical record,
\* one of the two being the duplicate of the other.
C6_DedupLaw ==
    Quiescent =>
        \A n, m \in Names :
            SameImage(n, m) =>
                /\ Canonical(files, n) = Canonical(files, m)
                /\ files[n].duplicate = m \/ files[m].duplicate = n

\* The step of find_file, under the write lock, of a thread that finds its
\* name inserted meanwhile.
C7_LoserStep(t) ==
    LET n == op[t].name
        r == Canonical(files, n)
    IN  pc[t] = "ff_insert" /\ pc'[t] # "ff_insert" /\ files[n].present
            => /\ files' = [files EXCEPT ![r].used = TRUE]
               /\ fingerprints' = fingerprints
               /\ unique_files' = unique_files
               /\ tf'[t] = NoFile
               /\ open_files' = open_files - (IF tf[t].opened THEN 1 ELSE 0)
               /\ file'[t] = r
               /\ raced'[t]

\* The two calls for one name, both returned and the name not invalidated
\* since, hold the same record.
C7_SameRecord ==
    \A t, u \in Threads :
        /\ t # u /\ raced[u] /\ pc[t] = "idle" /\ pc[u] = "idle"
        /\ op[t].kind = "imagespec" /\ op[u] = op[t]
        /\ files[op[t].name].timesopened = 1
        => file[t] = file[u]

\* C7: the thread that finds its name inserted meanwhile leaves by_name and
\* by_fingerprint as they are (but for the used flag of the record it
\* returns), destroys its temporary record and returns the canonical record
\* by_name holds for the name; both calls for the name return the same record.
C7_InsertionRace ==
    [](C7_SameRecord) /\ [][\A t \in Threads : C7_LoserStep(t)]_vars

\* C7's case: both threads called get_imagespec for the same new name, one
\* of them lost the race, both have returned.
C7_Witness ==
    \E t, u \in Threads :
        /\ t # u /\ raced[u] /\ ~raced[t] /\ pc[t] = "idle" /\ pc[u] = "idle"
        /\ op[t].kind = "imagespec" /\ op[u] = op[t]
        /\ ret[t] = "true" /\ ret[u] = "true"
        /\ files[op[t].name].timesopened = 1

\* get_imagespec of thread t for a name n that is in by_name.
C10_Step(t, n) ==
    GetImagespec(t, n) /\ files[n].present
        => /\ \A m \in Names : files'[m].timesopened = files[m].timesopened
           /\ \A m \in Names : files'[m].opened = files[m].opened
           /\ open_files' = open_files

\* C10: get_imagespec for a name that is in by_name opens no reader: no
\* record's m_timesopened and no record's reader changes in the call.
C10_OpenIdempotence ==
    [][\A t \in Threads, n \in Names : C10_Step(t, n)]_vars

\* C10's case: get_imagespec returned true for a canonical record that the
\* sweep had closed before the call (release () clears the used flag before it
\* closes, the call set it again), opened once in all.
C10_Witness ==
    \E t \in Threads, n \in Names :
        /\ pc[t] = "idle" /\ op[t].kind = "imagespec" /\ op[t].name = n
        /\ ret[t] = "true"
        /\ files[n].present /\ files[n].duplicate = NoName
        /\ ~files[n].opened /\ files[n].used
        /\ files[n].timesopened = 1

\* The tiles m_tilecache holds.
TableTiles == {tilecache[id] : id \in InTable(tilecache)}

\* C2, as the specification states it: whenever every operation has
\* returned, m_mem_used is at most the budget.
C2_TileMemoryBudget == Quiescent => mem_used <= MaxMemory

\* C2, amended: whenever every operation has returned, m_mem_used is below
\* the budget, unless the sweep emptied the table and the table now holds at
\* most the one tile inserted after it.
C2_BudgetOrOneTile ==
    Quiescent => mem_used < MaxMemory \/ Cardinality(InTable(tilecache)) <= 1

\* C2's case: the sweep ran the table empty and the budget is still not met.
C2_Witness ==
    /\ Quiescent
    /\ mem_used >= MaxMemory
    /\ Cardinality(InTable(tilecache)) = 1

\* C3, as the specification states it: at every quiescent point m_mem_used
\* is the sum of memsize () over the entries of the tile table.
C3_ByteAccounting == Quiescent => mem_used = SumSize(tiles, TableTiles)

\* C3, amended: at every quiescent point m_mem_used is the sum of memsize ()
\* over the tiles alive: those in the table and those a microcache slot or a
\* client's handle still references.
C3_LiveTiles ==
    Quiescent =>
        mem_used = SumSize(tiles, TableTiles \cup Pinned(tiles, pti, newtile))

\* C3's case: a tile the sweep or invalidate erased from the table lives on
\* in a microcache slot or a handle.
C3_Witness ==
    /\ Quiescent
    /\ \E o \in Pinned(tiles, pti, newtile) : o \notin TableTiles
    /\ mem_used > SumSize(tiles, TableTiles)

\* C5: no record of by_name with a non-null duplicate pointer holds an open
\* reader.
C5_DuplicateNoReader ==
    \A n \in Names :
        files[n].present /\ files[n].duplicate # NoName => ~files[n].opened

\* C5's case: get_tile through a duplicate's name has read a tile, and the
\* canonical record's reader was opened a second time.
C5_Witness ==
    \E t \in Threads, n \in Names :
        /\ pc[t] = "idle" /\ op[t].kind = "tile" /\ op[t].name = n
        /\ ret[t] = "true"
        /\ files[n].present /\ files[n].duplicate # NoName
        /\ files[files[n].duplicate].timesopened = 2

\* The step in which thread t enters get_imagespec, get_pixels or get_tile.
QueryKinds == {"imagespec", "pixels", "tile"}
Enters(t) ==
    \E k \in QueryKinds, n \in Names, xb \in Pixels, xe \in {1, 2} :
        Query(t, k, n, xb, xe)

\* The step in which such a call of thread t returns.
Returns(t) ==
    /\ pc'[t] = "idle" /\ op'[t].kind \in QueryKinds
    /\ pc[t] # "idle" \/ Enters(t)

\* The step in which some thread runs file->invalidate () on record n.
Invalidates(n) ==
    \E t \in Threads :
        pc[t] = "inv_file" /\ op[t].name = n /\ pc'[t] = "inv_purge"

\* What every step does to the broken records.
C9_Step ==
    /\ \A n \in Names :
           files[n].present /\ files[n].broken /\ ~Invalidates(n)
               => /\ files'[n].broken
                  /\ ~files'[n].opened
                  /\ files'[n].timesopened = files[n].timesopened
    /\ \A t \in Threads :
           Returns(t) /\ ret'[t] = "true" => ~files'[file'[t]].broken

C8_Step ==
    /\ \A t \in Threads :
           pc[t] = "inv_purge" /\ pc'[t] # "inv_purge"
               => \A u \in Threads : pti[u].registered => pti'[u].purge
    /\ \A u \in Threads :
           pti[u].purge /\ (Enters(u) \/ ~pti'[u].purge)
               => pti'[u].tile = 0 /\ pti'[u].lasttile = 0
    /\ \A n \in Names :
           Invalidates(n)
               => \/ files'[n].broken
                  \/ /\ files'[n].opened
                     /\ files'[n].timesopened = files[n].timesopened + 1
                     /\ files'[n].duplicate = NoName

\* C8: the last step of invalidate sets the purge flag of every thread that
\* has a per-thread record; a thread whose flag is set enters an operation
\* with both microcache slots emptied, and the flag is cleared in no other
\* way; file->invalidate () leaves the record reopened, a canonical record
\* again, or broken.
C8_InvalidationOrdering == [][C8_Step]_vars

\* C8's case: invalidate of a file has returned on one thread while another
\* thread's microcache holds a tile of that file, its purge flag now set.
C8_Witness ==
    \E t, u \in Threads, n \in Names :
        /\ t # u /\ Quiescent
        /\ op[t].kind = "invalidate" /\ op[t].name = n
        /\ pti[u].purge /\ pti[u].tile # 0 /\ tiles[pti[u].tile].file = n

\* The step in which invalidate_all (force = true) of thread t returns.
ForcedReturns(t) ==
    pc[t] = "ia_clear" /\ op[t].force /\ pc'[t] = "idle"

\* C11, as the specification states it: when invalidate_all (force = true)
\* returns, m_timesopened of every record that was in the table when the call
\* began is greater than it was then (get_imagespec on a name of the table
\* leaves it as it is).
C11_ForcedReopen ==
    [][\A t \in Threads :
          ForcedReturns(t)
              => \A n \in DOMAIN op[t].before :
                     files'[n].timesopened > op[t].before[n]]_vars

(***************************************************************************)
(* Failed tiles and broken files.                                          *)
(***************************************************************************)
\* The tile that find_tile_main_cache finds in the table for the pixel that
\* thread t looks up, or 0.
Found(t) == tilecache[<<file[t], TileOrigin(file[t], op[t].x)>>]

\* C12, as the specification states it: a tile whose read failed is never
\* a hit: a get_tile that finds it in the tile table returns no handle.
C12_FailedTileNoHit ==
    [][\A t \in Threads :
          /\ pc[t] = "ft_lookup" /\ op[t].kind = "tile"
          /\ Found(t) # 0 /\ ~tiles[Found(t)].valid
          /\ pc'[t] = "idle"
          => ret'[t] = "false"]_vars

\* Thread t's get_pixels returns at the check of file->broken (), either in
\* the step that looked the file up or in the one that inserted its record.
BrokenReturn(t) ==
    /\ \/ \E n \in Names, xb \in Pixels, xe \in {1, 2} : GetPixels(t, n, xb, xe)
       \/ FFInsert(t)
    /\ pc'[t] = "idle" /\ op'[t].kind = "pixels"
    /\ files'[file'[t]].broken

\* C13, as the specification states it: get_pixels on a broken file returns
\* false and leaves every pixel of the requested region zero-filled.
C13_BrokenZeroFill ==
    [][\A t \in Threads :
          BrokenReturn(t)
          => /\ ret'[t] = "false"
             /\ \A x \in DOMAIN op'[t].out : op'[t].out[x] = Zeros]_vars

\* The tile that find_tile gives thread t for the pixel it looks up: the one
\* of its microcache, else the one of the tile table, else 0.
Hit(t) ==
    LET id == <<file[t], TileOrigin(file[t], op[t].x)>>
        p == pti[t]
    IN  IF p.tile # 0 /\ TID(tiles[p.tile]) = id THEN p.tile
        ELSE IF p.tile # 0 /\ p.lasttile # 0 /\ TID(tiles[p.lasttile]) = id
        THEN p.lasttile
        ELSE Found(t)

\* C14, as the specification states it: a get_pixels whose region has a
\* pixel of a tile cached as invalid writes zeros for that pixel and
\* returns false, on every call.
C14_FailureSurfaces ==
    [][\A t \in Threads :
          /\ FTLookup(t) /\ op[t].kind = "pixels"
          /\ Hit(t) # 0 /\ ~tiles[Hit(t)].valid
          => /\ op'[t].out[op[t].x] = Zeros
             /\ pc'[t] = "idle" => ret'[t] = "false"
             /\ pc'[t] # "idle" => ~op'[t].ok]_vars

(***************************************************************************)
(* The statistics of repeated calls.                                       *)
(***************************************************************************)
\* C15, as the specification states it: when a thread calls get_tile twice
\* in a row for the same tile with no invalidation between, the second
\* call counts neither a microcache miss nor a cache miss.
C15_RepeatedGetTile ==
    [][\A t \in Threads :
          /\ op[t].kind = "tile" /\ op[t].again
          /\ pc[t] # "idle" /\ pc'[t] = "idle"
          => op'[t].stats = NoMisses]_vars

(***************************************************************************)
(* The bytes of a tile between invalidations.                              *)
(***************************************************************************)
\* Threads t and u both have a get_pixels of file n behind them that
\* returned true.
BothRead(t, u, n) ==
    /\ pc[t] = "idle" /\ op[t].kind = "pixels" /\ op[t].name = n
    /\ pc[u] = "idle" /\ op[u].kind = "pixels" /\ op[u].name = n
    /\ ret[t] = "true" /\ ret[u] = "true"

\* The two calls returned the same bytes for the pixels they share.
SameBytes(t, u) ==
    \A x \in DOMAIN op[t].out \cap DOMAIN op[u].out : op[t].out[x] = op[u].out[x]

Level(l) ==
    CASE l = "m_filemutex" -> 1
      [] l = "m_tilemutex" -> 2
      [] l = "m_input_mutex" -> 3
      [] l = "m_perthread_info_mutex" -> 4

\* The locks held when event i of evs happens, by their positions in evs.
HeldAt(evs, i) ==
    {j \in 1 .. i - 1 :
        /\ evs[j].e = "lock"
        /\ \A k \in j + 1 .. i - 1 :
              ~(evs[k].e = "unlock" /\ evs[k].l = evs[j].l /\ evs[k].n = evs[j].n)}

\* C17, as the specification states it: no thread acquires a lock of lower
\* number in the hierarchy while it holds one of higher number.
C17_LockOrder ==
    \A t \in Threads :
        LET evs == StepEvents(t)
        IN  \A i \in DOMAIN evs :
                evs[i].e = "lock"
                => \A j \in HeldAt(evs, i) : Level(evs[j].l) <= Level(evs[i].l)

\* C18, as the specification states it: a thread inside a reader open or
\* read holds the reader mutex of the file and neither table lock.
C18_NoTableLockAcrossIO ==
    \A t \in Threads :
        LET evs == StepEvents(t)
        IN  \A i \in DOMAIN evs :
                evs[i].e = "call" /\ evs[i].l \in {"open", "read"}
                => /\ \E j \in HeldAt(evs, i) :
                         evs[j].l = "m_input_mutex" /\ evs[j].n = evs[i].n
                   /\ \A j \in HeldAt(evs, i) :
                         evs[j].l \notin {"m_filemutex", "m_tilemutex"}

\* C19, as the specification states it: every call on the reader of a
\* record is made while the calling thread holds that record's reader
\* mutex.
C19_ReaderSerialization ==
    \A t \in Threads :
        LET evs == StepEvents(t)
        IN  \A i \in DOMAIN evs :
                evs[i].e = "call"
                => \E j \in HeldAt(evs, i) :
                      evs[j].l = "m_input_mutex" /\ evs[j].n = evs[i].n

(***************************************************************************)
(* Tile handles.                                                           *)
(***************************************************************************)
\* The handles on the tile at address o, none when no tile is there.
Handles(T, o) == IF o \in DOMAIN T THEN T[o].handles ELSE 0

\* get_tile returns a tile to thread t in this step: one reference more on
\* one tile with the TileID asked for, and on no other.
TakesHandle(t) ==
    /\ op[t].kind = "tile" /\ pc[t] # "idle"
    /\ pc'[t] = "idle" /\ ret'[t] = "true"
    => \E o \in DOMAIN tiles' :
          /\ TID(tiles'[o]) = <<file[t], TileOrigin(file[t], op[t].x)>>
          /\ tiles'[o].handles = Handles(tiles, o) + 1
          /\ \A q \in DOMAIN tiles' \ {o} :
                tiles'[q].handles = Handles(tiles, q)

\* The tile at o, of which a handle is out, is alive and the same after the
\* step, with no reference less; or the step is a release_tile of that tile,
\* which takes exactly one reference and may destroy the tile with the last.
KeepsPinned(o) ==
    \/ /\ o \in DOMAIN tiles'
       /\ TID(tiles'[o]) = TID(tiles[o])
       /\ tiles'[o].data = tiles[o].data /\ tiles'[o].valid = tiles[o].valid
       /\ tiles'[o].handles >= tiles[o].handles
    \/ /\ \E t \in Threads : ReleaseTile(t, o)
       /\ Handles(tiles', o) = tiles[o].handles - 1
       /\ o \in DOMAIN tiles' => /\ TID(tiles'[o]) = TID(tiles[o])
                                 /\ tiles'[o].data = tiles[o].data

AttributeAsked(t, p, dt) ==
    /\ pc[t] = "idle" /\ op[t].kind = "info"
    /\ ~files[file[t]].broken
    /\ op[t].info.dataname \notin {"resolution", "channels"}
    /\ p = find_attribute(op[t].info.dataname) /\ p # NoAttribute
    /\ dt = op[t].info.datatype /\ dt # p.type

\* C21, as the specification states it: an int attribute asked for as float
\* of the same array length comes back true, its values converted; types
\* that differ in any other way give false and nothing written.
C21_InfoCoercion ==
    \A t \in Threads, dt \in TypeDescs :
        \A p \in {find_attribute(dn) : dn \in DataNames} :
            AttributeAsked(t, p, dt)
            => IF /\ p.type.basetype = "INT" /\ dt.basetype = "FLOAT"
                  /\ p.type.arraylen = dt.arraylen
               THEN ret[t] = "true" /\ op[t].out = Data("FLOAT", p.data)
               ELSE ret[t] = "false" /\ op[t].out = NoData

(***************************************************************************)
(* Automatic MIP levels.                                                   *)
(***************************************************************************)
CeilHalf(x) == (x + 1) \div 2
FloorHalf(x) == Max(1, x \div 2)

\* The records of the file table that open gave levels of its own making.
AutoMipped == {n \in Names : files[n].present /\ Len(files[n].spec) > 1
                                /\ disk[n].kind = "ok"}

LevelAsked(t, n) ==
    /\ pc[t] = "idle" /\ op[t].kind = "imagespec" /\ op[t].x >= 1
    /\ op[t].name = n /\ file[t] = n
    /\ files[n].present /\ ~files[n].broken

\* C23, as the specification states it: with "automip" on, every file with
\* one subimage and no "textureformat", tiled or scanline, has levels down to
\* 1 by 1, and get_imagespec of its level 1 succeeds when the image is larger
\* than 1 by 1; with "automip" off or "textureformat" present the file has
\* its one spec only and get_imagespec of a subimage above 0 fails.
C23_AutoMipApplies ==
    \A t \in Threads, n \in Names :
        LevelAsked(t, n)
        => LET sp == files[n].spec
           IN  IF cfg.automip /\ ~disk[n].textureformat
               THEN /\ sp[Len(sp)] = <<1, 1>>
                    /\ op[t].x = 1 /\ sp[1] # <<1, 1>> => ret[t] = "true"
               ELSE Len(sp) = 1 /\ ret[t] = "false"

(***************************************************************************)
(* The sweeps.                                                             *)
(***************************************************************************)
\* C24, as the specification states it: every check_max_files ends, so no
\* find_file of a new name is ever left in a sweep that cannot end.
C24_FileSweepEnds == \A t \in Threads : pc[t] # "spin"

\* Thread t's add_tile_to_cache has run its check_max_mem to the end and has
\* inserted its tile: the bytes are below the budget, or the sweep has
\* emptied the table and the new tile is its only entry.
SweepEnded(t) ==
    /\ ~crashed'
    /\ \/ mem_used' < cfg.max_memory
       \/ InTable(tilecache') \subseteq {<<tiles[newtile[t]].file,
                                            tiles[newtile[t]].x>>}

\* C25, as the specification states it: every check_max_mem ends, with the
\* bytes below the budget or the table empty, whatever the used flags are
\* and whoever still refers to the tiles it evicts.
C25_TileSweepEnds ==
    [][\A t \in Threads : FTAdd(t) => SweepEnded(t)]_vars

\* What the check_max_files of thread t's find_file does to the records of
\* the table: a record whose used flag is set keeps its reader when release
\* is called on it once, and loses the flag; a record whose flag is clear
\* has no reader after a call of release.
TwoChances(t) ==
    FFInsert(t) /\ ~Added(op[t].name)
    => LET v == InsertFile(op[t].name, tf[t]).visits
       IN  \A n \in Names :
               files[n].present
               => /\ v[n] = 0 => files'[n].opened = files[n].opened
                  /\ v[n] = 1 /\ files[n].used
                        => /\ files'[n].opened = files[n].opened
                           /\ n # file'[t] => ~files'[n].used
                  /\ v[n] >= 1 /\ ~files[n].used => ~files'[n].opened

\* find_file returns a record to thread t: its used flag is set.
FindTouches(t) ==
    \/ Enters(t) /\ files[op'[t].name].present
    \/ FFInsert(t) /\ pc'[t] # "spin"

\* Thread t's read_tile runs on a record that is not broken.
ReadTouches(t) == FTRead(t) /\ ~files'[file[t]].broken

\* C26, as the specification states it: release closes the reader only when
\* the used flag is clear and else only clears the flag, and every find_file
\* and every tile read sets the flag, so that the record keeps its reader
\* through the next visit of the sweep.
C26_TwoChanceRelease ==
    [][\A t \in Threads :
          /\ TwoChances(t)
          /\ FindTouches(t) => files'[file'[t]].used
          /\ ReadTouches(t) => files'[file[t]].used]_vars

\* C26, corrected: release closes the reader only when the used flag is
\* clear and else only clears the flag; every find_file sets the flag, and a
\* tile read sets it only when it opens the reader: a read through a reader
\* that is open leaves the flag as it is.
C26_TwoChanceFindOnly ==
    [][\A t \in Threads :
          /\ TwoChances(t)
          /\ FindTouches(t) => files'[file'[t]].used
          /\ ReadTouches(t)
                => files'[file[t]].used
                       = (files[file[t]].used \/ ~files[file[t]].opened)]_vars

\* C26's case: a sweep has called release once on an open record whose flag
\* was set, the reader is still open, and a thread is about to read a tile
\* through it.
C26_Witness ==
    \E t \in Threads :
        /\ pc[t] = "ft_read" /\ files[file[t]].opened /\ ~files[file[t]].used

(***************************************************************************)
(* Insertion of a tile.                                                    *)
(***************************************************************************)
\* Thread t's add_tile_to_cache finds an entry of its tile's TileID in the
\* table, o, and has nothing to sweep.
Collides(t, o) ==
    /\ FTAdd(t)
    /\ o = tilecache[TID(tiles[newtile[t]])] /\ o # 0
    /\ mem_used < cfg.max_memory

\* C27, as the specification states it: the entry that was in the table
\* stays, and the tile that comes later is not inserted.
C27_EarlierEntryWins ==
    [][\A t \in Threads, o \in DOMAIN tiles :
          Collides(t, o) => tilecache'[TID(tiles[o])] = o]_vars

(***************************************************************************)
(* The states of a record.                                                 *)
(***************************************************************************)
\* Where a record stands: not in the table, broken, open, closed with its
\* specs known, or unopened.
StateOf(f) ==
    IF ~f.present THEN "absent"
    ELSE IF f.broken THEN "broken"
    ELSE IF f.opened THEN "open"
    ELSE IF f.nspec > 0 THEN "closed" ELSE "unopened"

\* Some thread's read_tile runs on record n.
Reads(n) == \E t \in Threads : FTRead(t) /\ file[t] = n

\* Some thread's find_file inserts a record and sweeps.
Sweeps == \E t \in Threads : FFInsert(t)

\* The moves of record n in one step, but for the one from closed to broken:
\* find_file puts it into the table open, broken or closed; the sweep
\* closes it; read_tile reopens it, once, and its specs stay as they are;
\* invalidate leaves it open or broken.
Moves(n) ==
    LET f == files[n]
        g == files'[n]
        a == StateOf(f)
        b == StateOf(g)
    IN  /\ b # "unopened" /\ a # "unopened"
        /\ \/ Invalidates(n) /\ b \in {"open", "broken"}
           \/ a = b /\ g.timesopened = f.timesopened /\ g.spec = f.spec
           \/ a = "absent" /\ b \in {"open", "broken", "closed"} /\ Sweeps
           \/ a = "open" /\ b = "closed" /\ Sweeps
                 /\ g.timesopened = f.timesopened /\ g.spec = f.spec
           \/ a = "closed" /\ b = "open" /\ Reads(n)
                 /\ g.timesopened = f.timesopened + 1 /\ g.spec = f.spec

\* A read_tile finds that the reader of the closed record n cannot be opened
\* any more: the record is broken and keeps its specs.
ReopenFails(n) ==
    /\ StateOf(files[n]) = "closed" /\ StateOf(files'[n]) = "broken"
    /\ Reads(n) /\ disk[n].kind = "bad"
    /\ files'[n].timesopened = files[n].timesopened
    /\ files'[n].spec = files[n].spec

\* get_imagespec on a closed record returns true and opens nothing.
SpecOfClosed(t) ==
    Enters(t) /\ op'[t].kind = "imagespec" /\ file'[t] # NoName
    /\ StateOf(files[file'[t]]) = "closed"
    => ret'[t] = "true" /\ StateOf(files'[file'[t]]) = "closed"

\* C28, as the specification states it: a record moves only from unopened
\* to open or broken, from open to closed with its specs, from closed to open
\* at the next read_tile, and by invalidate to open or broken; closed, it
\* keeps its specs, get_imagespec succeeds on it without a reopen, and the
\* reopen counts once and enumerates nothing.
C28_LazyOpenMoves ==
    [][/\ \A n \in Names : Moves(n)
       /\ \A t \in Threads : SpecOfClosed(t)]_vars

\* C28, corrected: the moves above, and one more: a closed record whose file
\* can no longer be opened becomes broken at the next read_tile, its
\* times_opened unchanged.
C28_LazyOpenOrBroken ==
    [][/\ \A n \in Names : Moves(n) \/ ReopenFails(n)
       /\ \A t \in Threads : SpecOfClosed(t)]_vars

\* C28's case: a record that the sweep had closed was reopened by a
\* read_tile, and the read has returned its tile.
C28_Witness ==
    \E t \in Threads, n \in Names :
        /\ pc[t] = "idle" /\ op[t].kind = "tile" /\ ret[t] = "true"
        /\ file[t] = n /\ StateOf(files[n]) = "open"
        /\ files[n].timesopened = 2 /\ Len(files[n].spec) = 1
        /\ files[n].mod_time = disk[n].mtime

(***************************************************************************)
(* invalidate_all.                                                         *)
(***************************************************************************)
\* The names of a sequence.
Range(q) == {q[i] : i \in DOMAIN q}

\* The step in which thread t's invalidate_all has made its list.
Selects(t) ==
    pc[t] = "idle" /\ op'[t].kind = "invalidate_all" /\ pc'[t] # "idle"

\* C29, as the specification states it: invalidate_all invalidates the
\* records whose file has another modification time on disk than the one
\* stored, and no others; with force it invalidates every record.
C29_InvalidateAllSelection ==
    [][\A t \in Threads :
          Selects(t)
          => Range(op'[t].todo)
                 = {n \in Present(files) :
                        op'[t].force \/ disk[n].mtime # files[n].mod_time}]_vars

(***************************************************************************)
(* Two threads that ask for one new name.                                  *)
(***************************************************************************)
\* Threads t and u have both constructed a record of the same name, and
\* both records hold an open reader.
TwoOpens(t, u) ==
    /\ t # u /\ pc[t] = "ff_insert" /\ pc[u] = "ff_insert"
    /\ op[t].name = op[u].name
    /\ tf[t].opened /\ tf[u].opened

\* C30, as the specification states it: the opens of one new name are
\* serialized on the reader mutex of its record, so that the name never has
\* two readers open at a time; the second thread finds the record of the
\* first.
C30_OpensSerialized == \A t, u \in Threads : ~TwoOpens(t, u)

\* The constructor of thread t opens a reader of its own for a file that can
\* be opened, whatever the other threads do.
OpensOwn(t) ==
    FFCreate(t) /\ disk[op[t].name].kind \in {"ok", "noread"}
    => tf'[t].opened /\ open_files' = open_files + 1

\* C30, corrected: every thread that misses the name in the table constructs
\* a record of its own and opens its reader under that record's mutex,
\* without waiting for any other thread, be it for the same file or another;
\* the thread that takes the write lock second finds the record of the
\* first, closes and destroys its own and returns the one of the table.
C30_OwnRecordOpens ==
    /\ [](\A t \in Threads : pc[t] = "ff_create" => ENABLED FFCreate(t))
    /\ [][\A t \in Threads : OpensOwn(t) /\ C7_LoserStep(t)]_vars

\* C30's case: a thread holds an open record of its own for a name whose
\* record another thread has inserted meanwhile, open as well.
C30_Witness ==
    \E t \in Threads :
        /\ pc[t] = "ff_insert" /\ tf[t].opened
        /\ files[op[t].name].present /\ files[op[t].name].opened
        /\ open_files = 2

(***************************************************************************)
(* The counter of open readers.                                            *)
(***************************************************************************)
\* The records that hold a reader: those of the table, and those find_file
\* has constructed and not yet inserted or destroyed.
Readers ==
    Cardinality(OpenRecords) + Cardinality({t \in Threads : tf[t].opened})

\* C31, as the specification states it: between the opens and closes, the
\* counter of open files that the sweep compares with max_open_files is the
\* number of records that hold a reader, whatever way open has returned.
C31_OpenCounter == open_files = Readers

(***************************************************************************)
(* Tiles and a concurrent invalidate.                                      *)
(***************************************************************************)
\* The record of f was opened, by its constructor or by invalidate, after
\* the file was last rewritten: it holds the attributes the file has now.
Refreshed(f) ==
    files[f].present /\ ~files[f].broken /\ files[f].attr = disk[f].attr

\* The entries of the table for f whose pixels are not those of the file
\* as it is on disk.
StaleTiles(f) ==
    {id \in InTable(tilecache) :
        /\ id[1] = f /\ tiles[tilecache[id]].valid
        /\ tiles[tilecache[id]].data # Bytes(f, id[2])}

\* C32, as the specification states it: once invalidate (f) has returned
\* and the get_tile and get_pixels calls that ran beside it have returned,
\* the table holds no tile of f read before the invalidation reopened f.
C32_NoStaleTile ==
    \A f \in Names : Quiescent /\ Refreshed(f) => StaleTiles(f) = {}

(***************************************************************************)
(* Waiting for locks.  A step of a thread takes and releases the locks of  *)
(* its events in their order; between two steps a thread holds none.  The  *)
(* threads walk through the events of their next steps side by side, and a *)
(* thread waits at a lock that another one holds.                          *)
(***************************************************************************)
\* read_tile for a tile of a level that open has added to an unmipped file:
\* read_unmipped, under the m_input_mutex that read_tile holds, calls
\* get_pixels on the level above for its texel, and find_tile looks up, reads
\* and adds the tiles of subimage 0 (read_tile enters the recursive mutex
\* again, which its owner never waits for).
UnmippedEvents(t) ==
    LET f == file[t]
        o == FileOpen(files[f], f)
        Texel(x) ==
            LET id == <<f, TileOrigin(f, x)>>
                row == {v \in Pixels : /\ v % TileWidth(f) = 0 /\ v # id[2]
                                       /\ tilecache[<<f, v>>] = 0}
            IN  Guarded("m_tilemutex", NoName, <<>>)
                \o (IF tilecache[id] # 0 THEN <<>>
                    ELSE <<Reader("read", f)>>
                         \o (IF cfg.autotile THEN RowEvents(row) ELSE <<>>)
                         \o Guarded("m_tilemutex", NoName, <<>>))
    IN  Guarded("m_input_mutex", f,
            (IF files[f].opened \/ files[f].broken THEN <<>>
             ELSE <<Reader("open", f)>>)
            \o (IF ~o.f.opened THEN <<>> ELSE Texel(0) \o Texel(1)))

\* The event lists thread t's next step may have: the queries carry no
\* subimage, so the tile read of a file with added levels is of either kind.
EventChoices(t) ==
    {StepEvents(t)}
    \cup (IF /\ pc[t] = "ft_read" /\ files[file[t]].untiled
              /\ Len(files[file[t]].spec) > 1
           THEN {UnmippedEvents(t)} ELSE {})

LockOf(e) == <<e.l, e.n>>

\* The locks a thread holds that has gone through the first i events of evs.
Holds(evs, i) == {LockOf(evs[j]) : j \in HeldAt(evs, i + 1)}

\* The threads that hold the lock thread t is about to take, when every
\* thread u has gone through pos[u] events of E[u].
WaitsFor(E, pos, t) ==
    IF pos[t] < Len(E[t]) /\ E[t][pos[t] + 1].e = "lock"
    THEN {u \in Threads \ {t} :
             LockOf(E[t][pos[t] + 1]) \in Holds(E[u], pos[u])}
    ELSE {}

\* Every position the threads can get to from the positions of front.
RECURSIVE Walks(_, _, _)
Walks(E, front, seen) ==
    IF front = {} THEN seen
    ELSE LET Succ(p) == {[p EXCEPT ![t] = @ + 1] :
                            t \in {u \in Threads : /\ p[u] < Len(E[u])
                                                   /\ WaitsFor(E, p, u) = {}}}
             new == UNION {Succ(p) : p \in front} \ seen
         IN  Walks(E, new, seen \cup new)

Start == [t \in Threads |-> 0]
Positions(E) == Walks(E, {Start}, {Start})

\* A set of threads each of which waits for a lock that another thread of
\* the set holds.
WaitCycle(E, pos) ==
    \E S \in SUBSET Threads \ {{}} :
        \A t \in S : WaitsFor(E, pos, t) \cap S # {}

\* C33: in no reachable state can the steps the threads are about to take
\* get into a set of threads each waiting for a lock (m_filemutex,
\* m_tilemutex, a reader mutex, m_perthread_info_mutex) held by another
\* thread of the set, whichever of the read_tile paths a tile read takes.
C33_NoDeadlock ==
    \A E \in [Threads -> UNION {EventChoices(t) : t \in Threads}] :
        (\A t \in Threads : E[t] \in EventChoices(t))
        => \A pos \in Positions(E) : ~WaitCycle(E, pos)

\* C33's case: a thread that holds the write lock of m_filemutex waits for
\* the reader mutex of a file, held by a thread inside read_unmipped that is
\* yet to take m_tilemutex.
C33_Witness ==
    \E t, u \in Threads :
        /\ pc[t] = "inv_file" /\ pc[u] = "ft_read" /\ file[u] = op[t].name
        /\ UnmippedEvents(u) \in EventChoices(u)
        /\ LET E == [v \in Threads |-> IF v = u THEN UnmippedEvents(u)
                                       ELSE StepEvents(v)]
           IN  \E pos \in Positions(E) :
                  /\ WaitsFor(E, pos, t) = {u}
                  /\ <<"m_filemutex", NoName>> \in Holds(E[t], pos[t])
                  /\ WaitsFor(E, pos, u) = {}

(***************************************************************************)
(* Reads of m_spec beside an invalidate.                                   *)
(***************************************************************************)
\* Thread t is in get_imagespec between find_file and its return, about to
\* read the record of file[t].
ReadsSpec(t) == pc[t] \in {"gs_check", "gs_copy"}

\* Thread u is inside ImageCacheFile::invalidate of record r: the list is
\* cleared and not yet filled again.
Rebuilds(u, r) == pc[u] = "inv_reopen" /\ op[u].name = r

\* C34, as the specification states it: no thread reads the spec list of a
\* record while the invalidate of another thread has cleared it and not yet
\* rebuilt it, and a query that has passed the range check of its subimage
\* reads a spec that exists.
C34_NoSpecRace ==
    \A t \in Threads :
        /\ ReadsSpec(t) => \A u \in Threads \ {t} : ~Rebuilds(u, file[t])
        /\ pc[t] = "gs_copy" => op[t].x < Len(files[file[t]].spec)

(***************************************************************************)
(* The cursor of the tile sweep.                                           *)
(***************************************************************************)
\* C35, as the specification states it: m_tile_sweep is the end position or
\* refers to an entry that is in the tile table, after the erasures of
\* invalidate, after those of the sweep and after insertions.
C35_SweepCursorValid ==
    /\ tile_sweep.ok
    /\ tile_sweep.at # NoID => tilecache[tile_sweep.at] # 0

(***************************************************************************)
(* The alignment of TileIDs.                                               *)
(***************************************************************************)
\* The TileID id that a query for pixel x has made lies on the tile grid of
\* its own subimage, and its tile holds the pixel.
Aligned(id, x) ==
    LET sp == TileSpecs(id.file)[id.subimage + 1]
    IN  /\ (id.x - sp.x) % sp.tile_width = 0
        /\ id.x <= x /\ x < id.x + sp.tile_width

\* Thread t has made the TileID of a query of kind k.
MadeID(t, k) ==
    op[t].kind = k /\ op[t].info.dataname = "subimage" /\ Len(op[t].out) = 1

\* C36, as the specification states it: every TileID that get_pixels or
\* get_tile makes for a pixel of subimage s has an origin that is a multiple
\* of the tile extent of subimage s, offset by the origin of its data
\* window, and holds the pixel.
C36_TileIDAligned ==
    \A t \in Threads :
        \A k \in {"pixels", "tile"} :
            MadeID(t, k) => Aligned(op[t].out[1], op[t].x)

(***************************************************************************)
(* Valid tiles and the reads behind them.                                  *)
(***************************************************************************)
\* C37, as the specification states it: every tile of the TileTable that is
\* valid holds pixels of reads that all succeeded, the other tiles of a
\* tile-row of read_untiled included.
C37_ValidMeansRead ==
    \A id \in TileIDs :
        LET a == tilecache[id]
        IN  a # 0 /\ tiles[a].valid => tiles[a].data # FailedRead

(***************************************************************************)
(* Duplicates and invalidation.                                            *)
(***************************************************************************)
\* Two canonical, non-broken records of by_name with the same non-empty
\* fingerprint and the same compared attributes.
TwinRecords(n, m) ==
    /\ n # m /\ files[n].present /\ files[m].present
    /\ files[n].duplicate = NoName /\ files[m].duplicate = NoName
    /\ ~files[n].broken /\ ~files[m].broken
    /\ files[n].fingerprint # 0 /\ files[n].fingerprint = files[m].fingerprint
    /\ files[n].attr = files[m].attr

\* C38, as the specification states it: while no file has changed on disk,
\* no two canonical, non-broken records of by_name have the same non-empty
\* fingerprint and the same compared attributes, after invalidate and
\* invalidate_all too.
C38_DedupSurvives ==
    touches = 0 => \A n, m \in Names : ~TwinRecords(n, m)

(***************************************************************************)
(* invalidate_all (false) twice.                                           *)
(***************************************************************************)
\* C39, as the specification states it: invalidate_all (false) would
\* invalidate no non-broken file whose record was opened or invalidated after
\* the file's last change on disk.  With one change on disk at most, these
\* are the records that hold what the disk holds.
C39_SecondInvalidatesNothing ==
    \A n \in ToInvalidate(FALSE) : ~Refreshed(n)

(***************************************************************************)
(* The lifetime of the per-thread records.                                 *)
(***************************************************************************)
\* The thread of the record or the list of the cache still points to it.
Reachable(p) == p.tss \/ p.registered

\* C40: a record of m_all_perthread_info is deleted once, by the step, of
\* the end of its thread and the destruction of the cache, that takes the
\* last pointer to it away, and so never while its thread or the list
\* points to it; and no step sets the purge flag of a deleted record.
C40_FreedOnce ==
    /\ [](\A t \in Threads :
            /\ pti[t].freed <= 1
            /\ pti[t].freed > 0 => ~Reachable(pti[t]))
    /\ [][\A t \in Threads :
            /\ pti'[t].freed = pti[t].freed
                   + (IF Reachable(pti[t]) /\ ~Reachable(pti'[t]) THEN 1 ELSE 0)
            /\ ~pti[t].purge /\ pti'[t].purge => pti[t].freed = 0]_vars

\* C40's case: the thread of one record ended before the cache was
\* destroyed, with its purge flag set; the other record is that of the
\* thread that destroyed the cache and then ended.  Both are deleted.
C40_Witness ==
    /\ pc["t1"] = "exited" /\ pti["t1"].purge /\ pti["t1"].freed = 1
    /\ pc["t2"] = "destroyed" /\ pti["t2"].freed = 1
====
